---- MODULE Spec2Model ----
(***************************************************************************)
(* RecruitPro: the request-admission pipeline of the account service.      *)
(*   src/lib/rate-limit.ts   RateLimiter.check / cleanup, RATE_LIMITS      *)
(*   src/lib/auth.ts         generateToken / verifyToken / extractToken... *)
(*   src/lib/errors.ts       ApiError classes, formatErrorResponse         *)
(*   src/app/api/auth/register/route.ts, src/unnamed/part_002   handlers   *)
(***************************************************************************)
EXTENDS Integers, Sequences, FiniteSets, TLC

VARIABLES
    now,        \* Date.now(), in milliseconds
    requests,   \* RateLimiter.requests : Map<string, {count, resetTime}>
    lastCall,   \* observation: the rateLimiter.check call just made, if any
    win,        \* observation: per key, the window the calls fall in
    solo,       \* observation: per key, the table of a limiter checked with that key only
    served,     \* observation: per operation and client address, the requests taken up
    jwtSecret,  \* JWT_SECRET, read from the environment when the process starts
    jwtExpiresIn, \* JWT_EXPIRES_IN, read from the environment when the process starts
    held,       \* the token a client holds: the last one generateToken issued
    lastVerify, \* observation: the verifyToken call just made, if any
    lastExtract,\* observation: the extractTokenFromRequest call just made, if any
    probes,     \* observation: two formatErrorResponse calls, side by side
    logSink,    \* what console.error received
    slots,      \* the requests being served: inputs, position, locals, response
    users       \* the User collection of the storage collaborator

rlVars == <<requests, lastCall, win, solo, served>>
tokVars == <<jwtSecret, jwtExpiresIn, held, lastVerify, lastExtract>>
fmtVars == <<probes, logSink>>
appVars == <<slots, users>>
vars == <<now, requests, lastCall, win, solo, served, jwtSecret, jwtExpiresIn, held, lastVerify, lastExtract,
          probes, logSink, slots, users>>

(***************************************************************************)
(* Bounds of the model.                                                    *)
(***************************************************************************)
MaxTime == 4
MaxLimit == 2
MaxWindow == 2
\* calls of one key in one window are followed up to this count
MaxCount == MaxLimit + 1
\* the clock is followed over MaxLifetimes token lifetimes, MaxSkew seconds around each
MaxLifetimes == 1
MaxSkew == 1
\* the handlers' clock is followed over MaxWindows rate-limit windows
MaxWindows == 1

\* Math.max(0, x) left out: the second argument as it is
Max_unclamped(a, b) == b
Max(a, b) == IF a >= b THEN a ELSE b
Min(a, b) == IF a <= b THEN a ELSE b

(***************************************************************************)
(* src/lib/rate-limit.ts                                                   *)
(***************************************************************************)
\* the keys the limiter is driven with when checked on its own
RLKeys == {"k1", "k2"}

EmptyMap == [k \in {} |-> [count |-> 0, resetTime |-> 0]]

\* cleanup(windowStart): delete every entry with resetTime < windowStart
cleanup(reqs, windowStart) ==
    [k \in {x \in DOMAIN reqs : ~(reqs[x].resetTime < windowStart)} |-> reqs[k]]

\* line 13: const windowStart = now - windowMs
windowStart_ahead(t, windowMs) == t + windowMs
windowStart(t, windowMs) == t - windowMs

\* line 21: if (now > current.resetTime)
windowExpired_inverted(t, resetTime) == t < resetTime
windowExpired_always(t, resetTime) == t >= 0
windowExpired(t, resetTime) == t > resetTime

\* line 31: success: current.count <= limit
admitted_strict(count, limit) == count < limit
admitted(count, limit) == count <= limit

\* line 27: current.count++
increment_twice(count) == count + 2
increment(count) == count + 1

\* RATE_LIMITS.AUTH: { limit: 5, windowMs: 15 * 60 * 1000 }
AUTH_limit == 5
AUTH_windowMs == 900000

\* check(identifier, limit, windowMs) at Date.now() = t on the table reqs:
\* the table it leaves and the RateLimitResult it returns
check(reqs, identifier, limit, windowMs, t) ==
    LET cleaned == cleanup(reqs, windowStart(t, windowMs))
        current == IF identifier \in DOMAIN cleaned
                   THEN cleaned[identifier]
                   ELSE [count |-> 0, resetTime |-> t + windowMs]
        fresh == IF windowExpired(t, current.resetTime)
                 THEN [count |-> 0, resetTime |-> t + windowMs]
                 ELSE current
        counted == [fresh EXCEPT !.count = increment(@)]
    IN  [requests |-> [k \in DOMAIN cleaned \cup {identifier} |->
                          IF k = identifier THEN counted ELSE cleaned[k]],
         result |-> [success |-> admitted(counted.count, limit),
                     limit |-> limit,
                     remaining |-> Max(0, limit - counted.count),
                     reset |-> counted.resetTime]]

(***************************************************************************)
(* Observation of a check call.  A window of a key runs from the call that *)
(* opens it up to its resetTime; a call after that opens the next one.     *)
(***************************************************************************)
NoCall ==
    [made |-> FALSE, key |-> "", limit |-> 0, windowMs |-> 0, at |-> 0,
     had |-> FALSE, prevCount |-> 0, prevReset |-> 0,
     hadWin |-> FALSE, prevWinReset |-> 0,
     success |-> FALSE, remaining |-> 0, reset |-> 0,
     alone |-> [success |-> FALSE, limit |-> 0, remaining |-> 0, reset |-> 0]]

\* the table a key would have had if no other key had ever been checked
Alone(key) == IF key \in DOMAIN solo THEN solo[key] ELSE EmptyMap

InWindow(w, key, t) == key \in DOMAIN w /\ t <= w[key].reset

WinAfter(w, key, windowMs, t, success) ==
    LET old == IF InWindow(w, key, t)
               THEN w[key]
               ELSE [reset |-> t + windowMs, n |-> 0, adm |-> 0]
        new == [old EXCEPT !.n = @ + 1,
                           !.adm = @ + (IF success THEN 1 ELSE 0)]
    IN  [k \in DOMAIN w \cup {key} |-> IF k = key THEN new ELSE w[k]]

\* the effect of one call rateLimiter.check(key, limit, windowMs)
DoCheck(key, limit, windowMs) ==
    LET r == check(requests, key, limit, windowMs, now)
        a == check(Alone(key), key, limit, windowMs, now)
        had == key \in DOMAIN requests
    IN  /\ requests' = r.requests
        /\ solo' = [k \in DOMAIN solo \cup {key} |->
                        IF k = key THEN a.requests ELSE solo[k]]
        /\ win' = WinAfter(win, key, windowMs, now, r.result.success)
        /\ lastCall' =
             [made |-> TRUE, key |-> key, limit |-> limit,
              windowMs |-> windowMs, at |-> now,
              had |-> had,
              prevCount |-> IF had THEN requests[key].count ELSE 0,
              prevReset |-> IF had THEN requests[key].resetTime ELSE 0,
              hadWin |-> key \in DOMAIN win,
              prevWinReset |-> IF key \in DOMAIN win THEN win[key].reset ELSE 0,
              success |-> r.result.success,
              remaining |-> r.result.remaining,
              reset |-> r.result.reset,
              alone |-> a.result]

\* the call is followed only while the key's count stays within MaxCount
CountBounded(key, cap) ==
    IF key \in DOMAIN requests
    THEN requests[key].count < cap \/ now > requests[key].resetTime
    ELSE TRUE

(***************************************************************************)
(* src/lib/errors.ts: the error classes and formatErrorResponse.           *)
(* A thrown value is an object: its class (for instanceof), its name,      *)
(* message, statusCode, code, and the fields the formatter reads.          *)
(***************************************************************************)
Undefined == [t |-> "undefined", s |-> "", n |-> 0]
Str(x) == [t |-> "string", s |-> x, n |-> 0]
Num(x) == [t |-> "number", s |-> "", n |-> x]

NoErrors == [f \in {} |-> <<>>]

\* new ApiError(message, statusCode, code) and its subclasses
MkApiError(class, message, statusCode, code, errors) ==
    [class |-> class, name |-> class, message |-> message,
     statusCode |-> statusCode, code |-> code,
     hasErrors |-> class = "ValidationError", errors |-> errors,
     hasKeyPattern |-> FALSE, keyPattern |-> <<>>]

ValidationError(errors) ==
    MkApiError("ValidationError", "Validation failed", 400, Str("VALIDATION_ERROR"), errors)
AuthenticationError(message) ==
    MkApiError("AuthenticationError", message, 401, Str("AUTHENTICATION_ERROR"), NoErrors)
AuthorizationError(message) ==
    MkApiError("AuthorizationError", message, 403, Str("AUTHORIZATION_ERROR"), NoErrors)
NotFoundError(message) ==
    MkApiError("NotFoundError", message, 404, Str("NOT_FOUND"), NoErrors)
ConflictError(message) ==
    MkApiError("ConflictError", message, 409, Str("CONFLICT"), NoErrors)

\* a thrown object that is no ApiError: what the runtime, the driver or a
\* library throws (class "Error": instanceof ApiError is false)
MkError(name, message, code, hasErrors, errors, hasKeyPattern, keyPattern) ==
    [class |-> "Error", name |-> name, message |-> message,
     statusCode |-> 0, code |-> code,
     hasErrors |-> hasErrors, errors |-> errors,
     hasKeyPattern |-> hasKeyPattern, keyPattern |-> keyPattern]

\* Mongoose's ValidationError: errors[path].message
MongooseValidationError(errors) ==
    MkError("ValidationError", "User validation failed", Undefined, TRUE, errors, FALSE, <<>>)
\* the driver's duplicate-key error: code 11000, keyPattern {email: 1}
DuplicateKeyError(message) ==
    MkError("MongoServerError", message, Num(11000), FALSE, NoErrors, TRUE, <<"email">>)
\* a duplicate-key error as servers without keyPattern report it: code, no keyPattern
LegacyDuplicateKeyError(message) ==
    MkError("MongoServerError", message, Num(11000), FALSE, NoErrors, FALSE, <<>>)
\* an Error named "ValidationError" that has no `errors` object
ForeignValidationError(message) ==
    MkError("ValidationError", message, Undefined, FALSE, NoErrors, FALSE, <<>>)
\* anything else
OtherError(name, message, code) ==
    MkError(name, message, code, FALSE, NoErrors, FALSE, <<>>)

ApiErrorClasses ==
    {"ApiError", "ValidationError", "AuthenticationError", "AuthorizationError",
     "NotFoundError", "ConflictError"}

\* error instanceof ApiError
InstanceOfApiError(error) == error.class \in ApiErrorClasses

Envelope(message, code, statusCode, hasDetails, details) ==
    [raised |-> FALSE, error |-> message, code |-> code, statusCode |-> statusCode,
     hasDetails |-> hasDetails, details |-> details, logged |-> FALSE]

\* a TypeError escapes formatErrorResponse: Object.keys(undefined)
Raises ==
    [raised |-> TRUE, error |-> "TypeError", code |-> "", statusCode |-> 0,
     hasDetails |-> FALSE, details |-> NoErrors, logged |-> FALSE]

\* code: error.code of an ApiError (a string, or undefined when none was given)
CodeOf(error) == IF error.code.t = "string" THEN error.code.s ELSE "undefined"

\* lines 93-99: the generic server error
genericMessage_leak(error) == error.message
genericMessage(error) == "Internal server error"

\* line 88: code of a duplicate-key failure
duplicateCode == "DUPLICATE_ERROR"

\* formatErrorResponse(error): the envelope returned, and whether it logged
formatErrorResponse(error) ==
    IF error.class = "ValidationError"
    THEN Envelope("Validation failed", CodeOf(error), error.statusCode, TRUE, error.errors)
    ELSE IF InstanceOfApiError(error)
    THEN Envelope(error.message, CodeOf(error), error.statusCode, FALSE, NoErrors)
    ELSE IF error.name = "ValidationError"
    THEN IF error.hasErrors
         THEN Envelope("Validation failed", "VALIDATION_ERROR", 400, TRUE,
                       [f \in DOMAIN error.errors |-> <<error.errors[f][1]>>])
         ELSE Raises
    ELSE IF error.code.t = "number" /\ error.code.n = 11000
    THEN IF error.hasKeyPattern
         THEN Envelope(IF Len(error.keyPattern) > 0
                       THEN error.keyPattern[1] \o " already exists"
                       ELSE "undefined already exists",
                       duplicateCode, 409, FALSE, NoErrors)
         ELSE Raises
    ELSE [Envelope(genericMessage(error), "INTERNAL_ERROR", 500, FALSE, NoErrors)
             EXCEPT !.logged = TRUE]

(***************************************************************************)
(* The failures a handler can hand to formatErrorResponse.                 *)
(***************************************************************************)
Failures ==
    {ValidationError([f \in {"email"} |-> <<"Invalid email format">>]),
     AuthenticationError("Authentication token required"),
     AuthenticationError("Invalid email or password"),
     AuthorizationError("Access denied"),
     NotFoundError("User not found"),
     ConflictError("User with this email already exists"),
     MongooseValidationError([f \in {"email"} |-> <<"Please enter a valid email">>]),
     DuplicateKeyError("E11000 duplicate key error collection: users index: email_1"),
     LegacyDuplicateKeyError("E11000 duplicate key error index: users.$email_1"),
     ForeignValidationError("child \"email\" fails"),
     OtherError("SyntaxError", "Unexpected token } in JSON at position 17", Undefined),
     OtherError("MongoNetworkError", "connect ECONNREFUSED 10.0.0.5:27017", Str("ECONNREFUSED")),
     OtherError("MongoServerError", "not authorized on recruitpro", Num(13)),
     OtherError("Error", "data and salt arguments required", Undefined)}

(***************************************************************************)
(* src/lib/validation.ts: the zod schemas.  A string is known by what the  *)
(* checks read of it: its length, its character classes, whether it has    *)
(* the form of an email or of a phone number, and its trimmed value.       *)
(***************************************************************************)
StrInfo(str) ==
    CASE str = "a@x.io" ->
           [len |-> 6, lower |-> TRUE, upper |-> FALSE, digit |-> FALSE,
            email |-> TRUE, phone |-> FALSE, trimmed |-> "a@x.io"]
      [] str = "b@x.io" ->
           [len |-> 6, lower |-> TRUE, upper |-> FALSE, digit |-> FALSE,
            email |-> TRUE, phone |-> FALSE, trimmed |-> "b@x.io"]
      [] str = "not-an-email" ->
           [len |-> 12, lower |-> TRUE, upper |-> FALSE, digit |-> FALSE,
            email |-> FALSE, phone |-> FALSE, trimmed |-> "not-an-email"]
      [] str = "" ->
           [len |-> 0, lower |-> FALSE, upper |-> FALSE, digit |-> FALSE,
            email |-> FALSE, phone |-> FALSE, trimmed |-> ""]
      [] str = "Passw0rd1" ->
           [len |-> 9, lower |-> TRUE, upper |-> TRUE, digit |-> TRUE,
            email |-> FALSE, phone |-> FALSE, trimmed |-> "Passw0rd1"]
      [] str = "Other0ne2" ->
           [len |-> 9, lower |-> TRUE, upper |-> TRUE, digit |-> TRUE,
            email |-> FALSE, phone |-> FALSE, trimmed |-> "Other0ne2"]
      [] str = "abc" ->
           [len |-> 3, lower |-> TRUE, upper |-> FALSE, digit |-> FALSE,
            email |-> FALSE, phone |-> FALSE, trimmed |-> "abc"]
      [] str = "Ann" ->
           [len |-> 3, lower |-> TRUE, upper |-> TRUE, digit |-> FALSE,
            email |-> FALSE, phone |-> FALSE, trimmed |-> "Ann"]
      [] str = " Lee " ->
           [len |-> 5, lower |-> TRUE, upper |-> TRUE, digit |-> FALSE,
            email |-> FALSE, phone |-> FALSE, trimmed |-> "Lee"]
      [] str = "Abcdef1" ->
           [len |-> 7, lower |-> TRUE, upper |-> TRUE, digit |-> TRUE,
            email |-> FALSE, phone |-> FALSE, trimmed |-> "Abcdef1"]
      [] str = "abcdefgh" ->
           [len |-> 8, lower |-> TRUE, upper |-> FALSE, digit |-> FALSE,
            email |-> FALSE, phone |-> FALSE, trimmed |-> "abcdefgh"]
      [] str = "  USER@Example.com " ->
           [len |-> 19, lower |-> TRUE, upper |-> TRUE, digit |-> FALSE,
            email |-> FALSE, phone |-> FALSE, trimmed |-> "USER@Example.com"]
      [] str = "USER@Example.com" ->
           [len |-> 16, lower |-> TRUE, upper |-> TRUE, digit |-> FALSE,
            email |-> TRUE, phone |-> FALSE, trimmed |-> "USER@Example.com"]
      [] str = "user@example.com" ->
           [len |-> 16, lower |-> TRUE, upper |-> FALSE, digit |-> FALSE,
            email |-> TRUE, phone |-> FALSE, trimmed |-> "user@example.com"]
      [] str = "+1 555-0100" ->
           [len |-> 11, lower |-> FALSE, upper |-> FALSE, digit |-> TRUE,
            email |-> FALSE, phone |-> TRUE, trimmed |-> "+1 555-0100"]
      [] OTHER ->
           [len |-> 5, lower |-> TRUE, upper |-> FALSE, digit |-> FALSE,
            email |-> FALSE, phone |-> FALSE, trimmed |-> str]

\* String.prototype.toLowerCase
toLowerCase(str) ==
    CASE str = "USER@Example.com" -> "user@example.com"
      [] str = "  USER@Example.com " -> "  user@example.com "
      [] str = "Passw0rd1" -> "passw0rd1"
      [] str = "Other0ne2" -> "other0ne2"
      [] str = "Abcdef1" -> "abcdef1"
      [] str = "Ann" -> "ann"
      [] str = " Lee " -> " lee "
      [] OTHER -> str

\* the messages of the checks of one string field, in the order declared
Issues(checks) == SelectSeq(checks, LAMBDA c : c # "")
Fails(cond, message) == IF cond THEN message ELSE ""

Has(body, f) == f \in DOMAIN body.fields

\* email: z.string().email('Invalid email format').min(1, 'Email is required')
emailIssues(body) ==
    IF ~Has(body, "email") THEN <<"Required">>
    ELSE Issues(<<Fails(~StrInfo(body.fields.email).email, "Invalid email format"),
                  Fails(StrInfo(body.fields.email).len < 1, "Email is required")>>)

\* password: z.string().min(8, ...).regex(/^(?=.*[a-z])(?=.*[A-Z])(?=.*\d)/, ...)
passwordIssues(body) ==
    IF ~Has(body, "password") THEN <<"Required">>
    ELSE LET i == StrInfo(body.fields.password)
         IN  Issues(<<Fails(i.len < 8, "Password must be at least 8 characters long"),
                      Fails(~(i.lower /\ i.upper /\ i.digit),
                            "Password must contain at least one uppercase letter, one lowercase letter, and one number")>>)

\* password of loginSchema: z.string().min(1, 'Password is required')
loginPasswordIssues(body) ==
    IF ~Has(body, "password") THEN <<"Required">>
    ELSE Issues(<<Fails(StrInfo(body.fields.password).len < 1, "Password is required")>>)

\* firstName / lastName: z.string().min(1, ...).max(50, ...).trim()
nameIssues(body, f, required, tooLong) ==
    IF ~Has(body, f) THEN <<"Required">>
    ELSE Issues(<<Fails(StrInfo(body.fields[f]).len < 1, required),
                  Fails(StrInfo(body.fields[f]).len > 50, tooLong)>>)

\* role: z.enum(['candidate', 'recruiter']).default('candidate')
roleIssues_anyString(body) == <<>>
roleIssues(body) ==
    IF Has(body, "role") /\ body.fields.role \notin {"candidate", "recruiter"}
    THEN <<"Invalid enum value">>
    ELSE <<>>

\* errors[path] = [error.message] in place of push: the last message only
Grouped_overwrite(byField) ==
    [f \in {g \in DOMAIN byField : Len(byField[g]) > 0} |->
        <<byField[f][Len(byField[f])]>>]

\* the issues of a safeParse, grouped by path as the handlers group them
Grouped(byField) ==
    [f \in {g \in DOMAIN byField : Len(byField[g]) > 0} |-> byField[f]]

NoData == [f \in {} |-> ""]

\* registerSchema.safeParse(body)
registerSchema(body) ==
    LET errors == Grouped(
            [email |-> emailIssues(body),
             password |-> passwordIssues(body),
             firstName |-> nameIssues(body, "firstName", "First name is required",
                                      "First name cannot exceed 50 characters"),
             lastName |-> nameIssues(body, "lastName", "Last name is required",
                                     "Last name cannot exceed 50 characters"),
             role |-> roleIssues(body)])
    IN  IF DOMAIN errors # {}
        THEN [success |-> FALSE, errors |-> errors, data |-> NoData]
        ELSE [success |-> TRUE, errors |-> NoErrors,
              data |-> [email |-> body.fields.email,
                        password |-> body.fields.password,
                        firstName |-> StrInfo(body.fields.firstName).trimmed,
                        lastName |-> StrInfo(body.fields.lastName).trimmed,
                        role |-> IF Has(body, "role") THEN body.fields.role
                                 ELSE "candidate"]]

\* loginSchema.safeParse(body)
loginSchema(body) ==
    LET errors == Grouped([email |-> emailIssues(body),
                           password |-> loginPasswordIssues(body)])
    IN  IF DOMAIN errors # {}
        THEN [success |-> FALSE, errors |-> errors, data |-> NoData]
        ELSE [success |-> TRUE, errors |-> NoErrors,
              data |-> [email |-> body.fields.email,
                        password |-> body.fields.password]]

\* the string fields of updateProfileSchema, all optional
UpdateFields == {"firstName", "lastName", "phone", "bio", "experience"}

updateIssues(body, f) ==
    IF ~Has(body, f) THEN <<>>
    ELSE LET i == StrInfo(body.fields[f])
         IN  CASE f \in {"firstName", "lastName"} ->
                    Issues(<<Fails(i.len < 1, "String must contain at least 1 character(s)"),
                             Fails(i.len > 50, "String must contain at most 50 character(s)")>>)
               [] f = "phone" -> Issues(<<Fails(~i.phone, "Invalid phone number")>>)
               [] f = "bio" ->
                    Issues(<<Fails(i.len > 500, "String must contain at most 500 character(s)")>>)
               [] OTHER ->
                    Issues(<<Fails(i.len > 2000, "String must contain at most 2000 character(s)")>>)

\* a schema made with .passthrough(): keys the schema does not name are kept
updateProfileSchema_passthrough(body) ==
    LET errors == Grouped([f \in UpdateFields |-> updateIssues(body, f)])
    IN  IF DOMAIN errors # {}
        THEN [success |-> FALSE, errors |-> errors, data |-> NoData]
        ELSE [success |-> TRUE, errors |-> NoErrors, data |-> body.fields]

\* updateProfileSchema.safeParse(body): keys the schema does not name are stripped
updateProfileSchema(body) ==
    LET errors == Grouped([f \in UpdateFields |-> updateIssues(body, f)])
    IN  IF DOMAIN errors # {}
        THEN [success |-> FALSE, errors |-> errors, data |-> NoData]
        ELSE [success |-> TRUE, errors |-> NoErrors,
              data |-> [f \in DOMAIN body.fields \cap UpdateFields |-> body.fields[f]]]

(***************************************************************************)
(* src/lib/auth.ts: generateToken / verifyToken over jsonwebtoken.         *)
(* A token is its form, its claims and its MAC; HMAC(secret, claims) is    *)
(* the signature only the holder of the secret can compute.                *)
(***************************************************************************)
\* line 5: process.env.JWT_SECRET || "insecure_default_secret"
Secrets == {"insecure_default_secret", "env_secret"}
\* line 6: JWT_EXPIRES_IN = "7d", in seconds
JWT_EXPIRES_IN == 604800

Payloads ==
    {[userId |-> "u1", email |-> "a@x.io", role |-> "candidate"],
     [userId |-> "u2", email |-> "b@x.io", role |-> "recruiter"]}

NoClaims == [userId |-> "", email |-> "", role |-> "", iat |-> 0, exp |-> 0]

HMAC(secret, claims) == [key |-> secret, over |-> claims]

\* jsonwebtoken's clock: Math.floor(Date.now() / 1000)
ToSeconds(ms) == ms \div 1000

\* jwt.sign(payload, secret, {expiresIn}) at Date.now() = t
jwtSign(payload, secret, expiresIn, t) ==
    LET claims == [userId |-> payload.userId, email |-> payload.email,
                   role |-> payload.role,
                   iat |-> ToSeconds(t), exp |-> ToSeconds(t) + expiresIn]
    IN  [form |-> "jwt", claims |-> claims, mac |-> HMAC(secret, claims)]

\* jsonwebtoken: "expiresIn" should be a number of seconds or string
\* representing a timespan; jwt.sign throws an Error on anything else
Timespans == {"7d"}
signRaises(expiresIn) == expiresIn \notin Timespans
SignError ==
    OtherError("Error", "expiresIn should be a number of seconds or string representing a timespan",
               Undefined)

\* generateToken(payload)
generateToken(payload, secret, t) == jwtSign(payload, secret, JWT_EXPIRES_IN, t)

\* jsonwebtoken: clockTimestamp >= payload.exp is TokenExpiredError
tokenExpired_early(nowS, exp) == nowS + 1 >= exp
tokenExpired_late(nowS, exp) == nowS > exp
tokenExpired(nowS, exp) == nowS >= exp

\* jwt.verify(token, secret) at Date.now() = t: the error it throws, or the claims
jwtVerify(token, secret, t) ==
    IF token.form = "empty"
    THEN [threw |-> "JsonWebTokenError: jwt must be provided", value |-> NoClaims]
    ELSE IF token.form # "jwt"
    THEN [threw |-> "JsonWebTokenError: jwt malformed", value |-> NoClaims]
    ELSE IF token.mac # HMAC(secret, token.claims)
    THEN [threw |-> "JsonWebTokenError: invalid signature", value |-> NoClaims]
    ELSE IF tokenExpired(ToSeconds(t), token.claims.exp)
    THEN [threw |-> "TokenExpiredError: jwt expired", value |-> NoClaims]
    ELSE [threw |-> "", value |-> token.claims]

\* a verifyToken whose catch lets the expiry error through
verifyToken_rethrowsExpired(token, secret, t) ==
    LET r == jwtVerify(token, secret, t)
    IN  IF r.threw = ""
        THEN [raised |-> FALSE, isNull |-> FALSE, payload |-> r.value]
        ELSE [raised |-> r.threw = "TokenExpiredError: jwt expired", isNull |-> TRUE,
              payload |-> NoClaims]

\* verifyToken(token): try { return jwt.verify(...) } catch { return null }
verifyToken(token, secret, t) ==
    LET r == jwtVerify(token, secret, t)
    IN  IF r.threw = ""
        THEN [raised |-> FALSE, isNull |-> FALSE, payload |-> r.value]
        ELSE [raised |-> FALSE, isNull |-> TRUE, payload |-> NoClaims]

(***************************************************************************)
(* The tokens a caller can present.                                        *)
(***************************************************************************)
Malformed == [form |-> "malformed", claims |-> NoClaims, mac |-> HMAC("", NoClaims)]
Empty == [form |-> "empty", claims |-> NoClaims, mac |-> HMAC("", NoClaims)]
\* the claims changed, the signature kept
TamperRole(token) == [token EXCEPT !.claims.role = "admin"]
TamperExp(token) == [token EXCEPT !.claims.exp = @ + JWT_EXPIRES_IN]
\* signed by someone who does not know the secret
Forge(payload, t) == jwtSign(payload, "attacker_secret", JWT_EXPIRES_IN, t)

NoHeld == [has |-> FALSE, payload |-> [userId |-> "", email |-> "", role |-> ""],
           token |-> Empty]
NoVerify == [made |-> FALSE, token |-> Empty, at |-> 0,
             raised |-> FALSE, isNull |-> TRUE, payload |-> NoClaims]

TokenInputs ==
    {Malformed, Empty}
    \cup {Forge(p, now) : p \in Payloads}
    \cup (IF held.has
          THEN {held.token, TamperRole(held.token), TamperExp(held.token)}
          ELSE {})

TokTimes ==
    {t \in {(j * JWT_EXPIRES_IN + e) * 1000 + m :
               j \in 0..MaxLifetimes, e \in (-1)..MaxSkew, m \in {0, 999}} : t >= 0}

(***************************************************************************)
(* src/lib/auth.ts: extractTokenFromRequest / authenticateRequest.         *)
(* A request: op, ip, the Authorization header, the token cookie, the body.*)
(***************************************************************************)
NoHeader == [present |-> FALSE, bearer |-> FALSE, token |-> Empty]
Bearer(token) == [present |-> TRUE, bearer |-> TRUE, token |-> token]
NoCookie == [present |-> FALSE, token |-> Empty]
Cookie(token) == [present |-> TRUE, token |-> token]

\* an Authorization header of another scheme, or 'bearer' in another case
Basic(token) == [present |-> TRUE, bearer |-> FALSE, token |-> token]

NoExtract == [made |-> FALSE, header |-> NoHeader, cookie |-> NoCookie,
              isNull |-> TRUE, token |-> Empty]

\* line 30: authHeader?.startsWith("Bearer ")
headerIsBearer(header) == header.present /\ header.bearer

\* an extractTokenFromRequest that looks at the cookie first
extractTokenFromRequest_cookieFirst(req) ==
    IF req.cookie.present /\ req.cookie.token.form # "empty"
    THEN [isNull |-> FALSE, token |-> req.cookie.token]
    ELSE IF headerIsBearer(req.header)
    THEN [isNull |-> FALSE, token |-> req.header.token]
    ELSE [isNull |-> TRUE, token |-> Empty]

\* extractTokenFromRequest(request): null, or the token string
extractTokenFromRequest(req) ==
    IF headerIsBearer(req.header)
    THEN [isNull |-> FALSE, token |-> req.header.token]
    ELSE IF req.cookie.present /\ req.cookie.token.form # "empty"
    THEN [isNull |-> FALSE, token |-> req.cookie.token]
    ELSE [isNull |-> TRUE, token |-> Empty]

\* an authenticateRequest that reads the claims without verifying (jwt.decode)
authenticateRequest_decodeOnly(req, secret, t) ==
    LET x == extractTokenFromRequest(req)
    IN  IF x.isNull \/ x.token.form # "jwt"
        THEN [raised |-> FALSE, isNull |-> TRUE, payload |-> NoClaims]
        ELSE [raised |-> FALSE, isNull |-> FALSE, payload |-> x.token.claims]

\* authenticateRequest(request): if (!token) return null; return verifyToken(token)
authenticateRequest(req, secret, t) ==
    LET x == extractTokenFromRequest(req)
    IN  IF x.isNull \/ x.token.form = "empty"
        THEN [raised |-> FALSE, isNull |-> TRUE, payload |-> NoClaims]
        ELSE verifyToken(x.token, secret, t)

(***************************************************************************)
(* The route handlers: src/app/api/auth/register/route.ts (register),      *)
(* src/unnamed/part_002 (login, profile GET, profile PUT).  A handler runs *)
(* without interruption up to its next await; pc names the await it is at. *)
(***************************************************************************)
Slots == {"h1", "h2"}
ClientIPs == {"", "203.0.113.7"}

\* `${op}:${request.ip || 'anonymous'}`
clientKey_perAddress(op, ip) == IF ip = "" THEN "anonymous" ELSE ip
clientKey(op, ip) == op \o ":" \o (IF ip = "" THEN "anonymous" ELSE ip)

Body(fields) == [malformed |-> FALSE, fields |-> fields]
MalformedBody == [malformed |-> TRUE, fields |-> NoData]

RegisterBodies ==
    {MalformedBody,
     Body([email |-> "not-an-email", password |-> "abc", firstName |-> "",
           lastName |-> "Ann"]),
     Body([email |-> "a@x.io", password |-> "Passw0rd1", firstName |-> "Ann",
           lastName |-> " Lee "]),
     Body([email |-> "b@x.io", password |-> "Passw0rd1", firstName |-> "Ann",
           lastName |-> "Ann", role |-> "recruiter"])}

LoginBodies ==
    {MalformedBody,
     Body([email |-> "a@x.io"]),
     Body([email |-> "a@x.io", password |-> "Passw0rd1"]),
     Body([email |-> "a@x.io", password |-> "Other0ne2"])}

UpdateBodies ==
    {MalformedBody,
     Body([phone |-> "call me"]),
     Body([firstName |-> "Ann", phone |-> "+1 555-0100"])}

\* the tokens a caller can hold at time t: issued just now, issued one
\* lifetime ago (exp = now), tampered, forged, malformed, empty
IssuedNow(p, t) == generateToken(p, jwtSecret, t)
IssuedLifetimeAgo(p, t) == generateToken(p, jwtSecret, t - JWT_EXPIRES_IN * 1000)
Credentials(t) ==
    {NoHeader, Bearer(Malformed), Basic(Malformed)}
    \cup {Bearer(IssuedNow(p, t)) : p \in Payloads}
    \cup UNION {{Bearer(IssuedLifetimeAgo(p, t)),
                  Bearer(TamperRole(IssuedNow(p, t))),
                  Bearer(Forge(p, t))} : p \in {q \in Payloads : q.userId = "u1"}}

NoUser == [id |-> "", email |-> "", password |-> "", firstName |-> "",
           lastName |-> "", role |-> "", phone |-> "", bio |-> "", experience |-> ""]

\* user.toJSON(): the transform deletes the password
toJSON(user) == [user EXCEPT !.password = ""]

\* UserSchema.pre('save'): bcrypt.hash(password, 12)
Hash(password) == "bcrypt:" \o password
\* bcrypt.compare(candidate, hash)
comparePassword(candidate, hash) == Hash(candidate) = hash

\* Date.prototype.toISOString of new Date(ms): the timestamp in ISO-8601 text
toISOString(ms) == [format |-> "ISO-8601", epochMs |-> ms]

NoResponse ==
    [status |-> 0, error |-> "", code |-> "", hasStatusCode |-> FALSE,
     hasDetails |-> FALSE, details |-> NoErrors,
     hasRetryAfter |-> FALSE, retryAfter |-> toISOString(0),
     hasRateHeaders |-> FALSE, rlLimit |-> 0, rlRemaining |-> 0,
     rlReset |-> toISOString(0),
     message |-> "", hasToken |-> FALSE, token |-> Empty, setCookie |-> FALSE,
     hasUser |-> FALSE, user |-> NoUser]

\* lines 21-37: the 429 of a denied check
RateLimitResponse(message, result) ==
    [NoResponse EXCEPT !.status = 429, !.error = message,
                       !.code = "RATE_LIMIT_EXCEEDED",
                       !.hasRetryAfter = TRUE, !.retryAfter = toISOString(result.reset),
                       !.hasRateHeaders = TRUE, !.rlLimit = result.limit,
                       !.rlRemaining = result.remaining,
                       !.rlReset = toISOString(result.reset)]

\* catch (error): NextResponse.json(errorResponse, {status: errorResponse.statusCode});
\* when formatErrorResponse itself throws, the framework answers a bare 500
ErrorResponse(envelope) ==
    IF envelope.raised
    THEN [NoResponse EXCEPT !.status = 500]
    ELSE [NoResponse EXCEPT !.status = envelope.statusCode,
                            !.error = envelope.error, !.code = envelope.code,
                            !.hasStatusCode = TRUE,
                            !.hasDetails = envelope.hasDetails,
                            !.details = envelope.details]

\* the 201 / 200 of register and login: message, user, token, and the cookie
TokenResponse(status, message, user, token) ==
    [NoResponse EXCEPT !.status = status, !.message = message,
                       !.hasUser = TRUE, !.user = toJSON(user),
                       !.hasToken = TRUE, !.token = token, !.setCookie = TRUE]

\* the 200 of the profile handlers: message and user
UserResponse(message, user) ==
    [NoResponse EXCEPT !.status = 200, !.message = message,
                       !.hasUser = TRUE, !.user = toJSON(user)]

NoRequest == [op |-> "", ip |-> "", header |-> NoHeader, cookie |-> NoCookie,
              body |-> MalformedBody]

IdleSlot ==
    [pc |-> "idle", req |-> NoRequest,
     checked |-> FALSE, admitted |-> FALSE,
     verified |-> FALSE, payload |-> NoClaims,
     data |-> NoData, found |-> NoUser, response |-> NoResponse,
     trace |-> <<>>]

AppIdle ==
    /\ slots = [h \in Slots |-> IdleSlot]
    /\ users = <<>>

NoProbe == [made |-> FALSE, failure |-> OtherError("", "", Undefined), envelope |-> Raises]

FmtIdle ==
    /\ probes = [i \in {"A", "B"} |-> NoProbe]
    /\ logSink = {}
    /\ AppIdle

TokIdle ==
    /\ jwtSecret \in Secrets
    /\ jwtExpiresIn = "7d"
    /\ held = NoHeld
    /\ lastVerify = NoVerify
    /\ lastExtract = NoExtract

RLIdle ==
    /\ requests = EmptyMap
    /\ lastCall = NoCall
    /\ win = [k \in {} |-> [reset |-> 0, n |-> 0, adm |-> 0]]
    /\ solo = [k \in {} |-> EmptyMap]
    /\ served = [k \in {} |-> [reset |-> 0, n |-> 0, adm |-> 0]]

TokInit ==
    /\ now = 0
    /\ TokIdle
    /\ RLIdle
    /\ FmtIdle

TokAdvance(t) ==
    /\ t > now
    /\ now' = t
    /\ lastVerify' = NoVerify
    /\ UNCHANGED <<jwtSecret, jwtExpiresIn, held, lastExtract, rlVars, fmtVars, appVars>>

\* a handler issues a token: generateToken(payload)
TokGenerate(payload) ==
    /\ held' = [has |-> TRUE, payload |-> payload,
                token |-> generateToken(payload, jwtSecret, now)]
    /\ lastVerify' = NoVerify
    /\ UNCHANGED <<now, jwtSecret, jwtExpiresIn, lastExtract, rlVars, fmtVars, appVars>>

\* the process restarts with another JWT_SECRET; clients keep their tokens
TokRestart(secret) ==
    /\ secret # jwtSecret
    /\ jwtSecret' = secret
    /\ lastVerify' = NoVerify
    /\ UNCHANGED <<now, jwtExpiresIn, held, lastExtract, rlVars, fmtVars, appVars>>

\* verifyToken(token)
TokVerify(token) ==
    LET r == verifyToken(token, jwtSecret, now)
    IN  /\ lastVerify' = [made |-> TRUE, token |-> token, at |-> now,
                          raised |-> r.raised, isNull |-> r.isNull,
                          payload |-> r.payload]
        /\ UNCHANGED <<now, jwtSecret, jwtExpiresIn, held, lastExtract, rlVars, fmtVars, appVars>>

TokNext ==
    \/ \E t \in TokTimes : TokAdvance(t)
    \/ \E payload \in Payloads : TokGenerate(payload)
    \/ \E secret \in Secrets : TokRestart(secret)
    \/ \E token \in TokenInputs : TokVerify(token)

SpecTok == TokInit /\ [][TokNext]_vars

(***************************************************************************)
(* C7: verifyToken(generateToken(payload)), called before the token's      *)
(* expiry with the same signing secret, returns a non-null payload with    *)
(* the original userId, email and role.                                    *)
(***************************************************************************)
C7_RoundTrip ==
    (/\ lastVerify.made
     /\ held.has
     /\ lastVerify.token = held.token
     /\ held.token.mac.key = jwtSecret
     /\ ToSeconds(lastVerify.at) < held.token.claims.exp)
        => /\ ~lastVerify.raised
           /\ ~lastVerify.isNull
           /\ lastVerify.payload.userId = held.payload.userId
           /\ lastVerify.payload.email = held.payload.email
           /\ lastVerify.payload.role = held.payload.role

\* the issued token verified in the last second before its expiry
C7_Witness ==
    /\ lastVerify.made
    /\ held.has
    /\ lastVerify.token = held.token
    /\ held.token.mac.key = jwtSecret
    /\ ToSeconds(lastVerify.at) = held.token.claims.exp - 1
    /\ ~lastVerify.isNull
    /\ lastVerify.payload.userId = held.payload.userId

(***************************************************************************)
(* C8: verifyToken returns a payload only if the token's signature         *)
(* verifies against the current secret and now < expiresAt; for every      *)
(* other input it returns null, and it never raises.                       *)
(***************************************************************************)
SignatureVerifies(token, secret) ==
    token.form = "jwt" /\ token.mac = [key |-> secret, over |-> token.claims]

C8_PayloadOnlyIfValid ==
    lastVerify.made =>
        /\ ~lastVerify.raised
        /\ ~lastVerify.isNull <=>
              /\ SignatureVerifies(lastVerify.token, jwtSecret)
              /\ ToSeconds(lastVerify.at) < lastVerify.token.claims.exp

\* a token signed by this process, presented at the second of its expiry, gives null
C8_Witness ==
    /\ lastVerify.made
    /\ SignatureVerifies(lastVerify.token, jwtSecret)
    /\ ToSeconds(lastVerify.at) = lastVerify.token.claims.exp
    /\ lastVerify.isNull
    /\ ~lastVerify.raised

(***************************************************************************)
(* formatErrorResponse on its own: two calls side by side.                 *)
(***************************************************************************)
FmtInit ==
    /\ now = 0
    /\ RLIdle
    /\ jwtSecret = "insecure_default_secret"
    /\ jwtExpiresIn = "7d"
    /\ held = NoHeld
    /\ lastVerify = NoVerify
    /\ lastExtract = NoExtract
    /\ FmtIdle

\* a catch block: formatErrorResponse(error)
FmtFormat(i, failure) ==
    LET e == formatErrorResponse(failure)
    IN  /\ probes' = [probes EXCEPT ![i] =
                         [made |-> TRUE, failure |-> failure, envelope |-> e]]
        /\ logSink' = IF e.logged THEN logSink \cup {failure} ELSE logSink
        /\ UNCHANGED <<now, rlVars, tokVars, appVars>>

FmtNext == \E i \in {"A", "B"}, failure \in Failures : FmtFormat(i, failure)

SpecFmt == FmtInit /\ [][FmtNext]_vars

\* not an ApiError, not a storage validation error, not a duplicate-key error
Unrecognized(failure) ==
    /\ failure.class \notin ApiErrorClasses
    /\ failure.name # "ValidationError"
    /\ ~(failure.code.t = "number" /\ failure.code.n = 11000)

Public(envelope) ==
    [error |-> envelope.error, code |-> envelope.code,
     statusCode |-> envelope.statusCode,
     hasDetails |-> envelope.hasDetails, details |-> envelope.details]

(***************************************************************************)
(* C4: any two failures of no recognized kind get the identical envelope   *)
(* {error: 'Internal server error', code: 'INTERNAL_ERROR', statusCode:    *)
(* 500}; the original failure goes only to the log sink.                   *)
(***************************************************************************)
C4_UnrecognizedIndistinguishable ==
    \A i, j \in {"A", "B"} :
        (/\ probes[i].made /\ Unrecognized(probes[i].failure)
         /\ probes[j].made /\ Unrecognized(probes[j].failure))
            => /\ probes[i].envelope = probes[j].envelope
               /\ ~probes[i].envelope.raised
               /\ Public(probes[i].envelope) =
                     [error |-> "Internal server error", code |-> "INTERNAL_ERROR",
                      statusCode |-> 500, hasDetails |-> FALSE, details |-> NoErrors]
               /\ probes[i].failure \in logSink

\* two unrecognized failures with different content were both formatted
C4_Witness ==
    /\ probes["A"].made /\ Unrecognized(probes["A"].failure)
    /\ probes["B"].made /\ Unrecognized(probes["B"].failure)
    /\ probes["A"].failure.message # probes["B"].failure.message
    /\ probes["A"].failure.name # probes["B"].failure.name
    /\ probes["A"].envelope.statusCode = 500

(***************************************************************************)
(* C5: a duplicate-key failure of the storage collaborator (code 11000)    *)
(* is formatted with code CONFLICT and statusCode 409, never INTERNAL.     *)
(***************************************************************************)
C5_DuplicateKeyIsConflict ==
    \A i \in {"A", "B"} :
        (/\ probes[i].made
         /\ probes[i].failure.code.t = "number"
         /\ probes[i].failure.code.n = 11000)
            => /\ ~probes[i].envelope.raised
               /\ probes[i].envelope.code = "CONFLICT"
               /\ probes[i].envelope.statusCode = 409

(***************************************************************************)
(* The rate limiter on its own: any key, any limit >= 1, any windowMs > 0. *)
(***************************************************************************)
RLInit ==
    /\ now = 0
    /\ RLIdle
    /\ jwtSecret = "insecure_default_secret"
    /\ jwtExpiresIn = "7d"
    /\ held = NoHeld
    /\ lastVerify = NoVerify
    /\ lastExtract = NoExtract
    /\ FmtIdle

RLTick ==
    /\ now < MaxTime
    /\ now' = now + 1
    /\ lastCall' = NoCall
    /\ UNCHANGED <<requests, win, solo, served, tokVars, fmtVars, appVars>>

RLCheck(key, limit, windowMs) ==
    /\ CountBounded(key, MaxCount)
    /\ DoCheck(key, limit, windowMs)
    /\ UNCHANGED <<now, served, tokVars, fmtVars, appVars>>

RLNext ==
    \/ RLTick
    \/ \E key \in RLKeys, limit \in 1..MaxLimit, windowMs \in 1..MaxWindow :
          RLCheck(key, limit, windowMs)

SpecRL == RLInit /\ [][RLNext]_vars

(***************************************************************************)
(* C1: inside one window of a key, the k-th call of the window is admitted *)
(* exactly when k <= limit: the first `limit` calls return success = true  *)
(* and every later call of that window returns success = false.            *)
(***************************************************************************)
C1_FirstLimitAdmitted ==
    lastCall.made =>
        (lastCall.success <=> win[lastCall.key].n <= lastCall.limit)

\* a window in which limit calls were admitted and a later one was denied
C1_Witness ==
    /\ lastCall.made
    /\ ~lastCall.success
    /\ win[lastCall.key].n = lastCall.limit + 1
    /\ win[lastCall.key].adm >= 1

(***************************************************************************)
(* C9: a check made after the key's resetTime has elapsed is admitted,     *)
(* even if the previous window was exhausted, whatever was checked between.*)
(***************************************************************************)
C9_AdmittedAfterReset ==
    (/\ lastCall.made
     /\ \/ lastCall.had /\ lastCall.at > lastCall.prevReset
        \/ lastCall.hadWin /\ lastCall.at > lastCall.prevWinReset)
        => lastCall.success

\* the previous window was exhausted, another key was checked, the call is admitted
C9_Witness ==
    /\ lastCall.made
    /\ lastCall.had
    /\ lastCall.prevCount > lastCall.limit
    /\ lastCall.at > lastCall.prevReset
    /\ lastCall.success
    /\ \E k \in DOMAIN win : k # lastCall.key

(***************************************************************************)
(* C10: a check at a time now >= the key's stored resetTime (now =         *)
(* resetTime included) replaces the window: it leaves count = 1 and        *)
(* resetTime = now + windowMs.                                             *)
(***************************************************************************)
C10_WindowReplacedAtReset ==
    (lastCall.made /\ lastCall.had /\ lastCall.at >= lastCall.prevReset)
        => /\ requests[lastCall.key].count = 1
           /\ requests[lastCall.key].resetTime = lastCall.at + lastCall.windowMs

(***************************************************************************)
(* The handlers, step by step.                                             *)
(***************************************************************************)
Times == {j * AUTH_windowMs + e : j \in 0..MaxWindows, e \in 0..MaxSkew}

AuthRequests(op, ips, bodies) ==
    {[op |-> op, ip |-> ip, header |-> NoHeader, cookie |-> NoCookie, body |-> b] :
        ip \in ips, b \in bodies}

ProfileRequests(op, bodies, t) ==
    {[op |-> op, ip |-> "203.0.113.7", header |-> h, cookie |-> NoCookie, body |-> b] :
        h \in Credentials(t), b \in bodies}

Started(req) == [IdleSlot EXCEPT !.req = req]

\* observation: the stages a request has entered, in order
Enter(slot, stages) == [slot EXCEPT !.trace = @ \o stages]

\* return of a response: the handler is done
Respond(h, slot, response) ==
    slots' = [slots EXCEPT ![h] = [slot EXCEPT !.pc = "done", !.response = response]]

\* catch (error) { formatErrorResponse(error) ... }
Catch(h, slot, failure) ==
    LET e == formatErrorResponse(failure)
    IN  /\ Respond(h, Enter(slot, <<"format">>), ErrorResponse(e))
        /\ logSink' = IF e.logged THEN logSink \cup {failure} ELSE logSink

\* the rate limiting both auth handlers start with
RateLimited(h, req, message) ==
    LET key == clientKey(req.op, req.ip)
        r == check(requests, key, AUTH_limit, AUTH_windowMs, now)
        slot == [Enter(Started(req), <<"rate">>) EXCEPT
                    !.checked = TRUE, !.admitted = r.result.success]
    IN  /\ h \in DOMAIN slots
        /\ slots[h].pc = "idle"
        /\ CountBounded(key, AUTH_limit + 1)
        /\ DoCheck(key, AUTH_limit, AUTH_windowMs)
        /\ served' = WinAfter(served, <<req.op, req.ip>>, AUTH_windowMs, now,
                              r.result.success)
        /\ IF r.result.success
           THEN slots' = [slots EXCEPT ![h] = [slot EXCEPT !.pc = "json"]]
           ELSE Respond(h, slot, RateLimitResponse(message, r.result))
        /\ UNCHANGED <<now, tokVars, probes, logSink, users>>

\* register POST, lines 13-40: up to await request.json()
PostRegister(h, req) == RateLimited(h, req, "Too many registration attempts")

\* login POST, lines 11-38: up to await request.json()
PostLogin(h, req) == RateLimited(h, req, "Too many login attempts")

\* profile GET / PUT: authenticateRequest, up to the next await
Authenticated(h, req, next) ==
    LET auth == authenticateRequest(req, jwtSecret, now)
        x == extractTokenFromRequest(req)
        slot == [Enter(Started(req), <<"auth">>) EXCEPT
                    !.verified = ~(x.isNull \/ x.token.form = "empty"),
                    !.payload = auth.payload]
    IN  /\ h \in DOMAIN slots
        /\ slots[h].pc = "idle"
        /\ IF auth.raised
           THEN Catch(h, slot, OtherError("TokenExpiredError", "jwt expired", Undefined))
           ELSE IF auth.isNull
           THEN Catch(h, slot, AuthenticationError("Authentication token required"))
           ELSE /\ slots' = [slots EXCEPT ![h] = [slot EXCEPT !.pc = next]]
                /\ UNCHANGED logSink
        /\ UNCHANGED <<now, rlVars, tokVars, probes, users>>

GetProfile(h, req) == Authenticated(h, req, "connect")
PutProfile(h, req) == Authenticated(h, req, "json")

\* request.json() throws on a body that is no JSON
SyntaxError == OtherError("SyntaxError", "Unexpected token in JSON at position 0", Undefined)

safeParse(op, body) ==
    CASE op = "register" -> registerSchema(body)
      [] op = "login" -> loginSchema(body)
      [] OTHER -> updateProfileSchema(body)

\* if (!validationResult.success) { ... throw new ValidationError(errors) }
Rejects_never(v) == FALSE
Rejects(v) == ~v.success

\* const body = await request.json(); schema.safeParse(body); up to connectToDatabase()
ParseBody(h) ==
    LET slot == IF h \in DOMAIN slots THEN slots[h] ELSE IdleSlot
        v == safeParse(slot.req.op, slot.req.body)
    IN  /\ h \in DOMAIN slots
        /\ slot.pc = "json"
        /\ IF slot.req.body.malformed
           THEN Catch(h, Enter(slot, <<"json">>), SyntaxError)
           ELSE IF Rejects(v)
           THEN Catch(h, Enter(slot, <<"json", "validate">>), ValidationError(v.errors))
           ELSE /\ slots' = [slots EXCEPT ![h] =
                                [Enter(slot, <<"json", "validate">>) EXCEPT
                                    !.pc = "connect", !.data = v.data]]
                /\ UNCHANGED logSink
        /\ UNCHANGED <<now, rlVars, tokVars, probes, users>>

\* await connectToDatabase() resolves: the query is sent
Connect(h) ==
    /\ h \in DOMAIN slots
    /\ slots[h].pc = "connect"
    /\ slots' = [slots EXCEPT ![h] = [Enter(slots[h], <<"connect">>) EXCEPT !.pc = "query"]]
    /\ UNCHANGED <<now, rlVars, tokVars, fmtVars, users>>

\* await connectToDatabase() rejects
ConnectFails(h) ==
    /\ h \in DOMAIN slots
    /\ slots[h].pc = "connect"
    /\ Catch(h, Enter(slots[h], <<"connect">>),
             OtherError("MongoNetworkError", "connect ECONNREFUSED 10.0.0.5:27017",
                        Str("ECONNREFUSED")))
    /\ UNCHANGED <<now, rlVars, tokVars, probes, users>>

\* UserSchema email: { lowercase: true, trim: true }: the setters Mongoose
\* applies to the value of a document and of a query filter
castEmail(email) == toLowerCase(StrInfo(email).trimmed)

ByEmail(email) == {i \in 1..Len(users) : users[i].email = castEmail(email)}
ById(id) == {i \in 1..Len(users) : users[i].id = id}

\* register, lines 59-73: User.findOne({email}); new User(...); up to user.save()
RegisterFindOne(h) ==
    LET slot == IF h \in DOMAIN slots THEN slots[h] ELSE IdleSlot
    IN  /\ h \in DOMAIN slots
        /\ slot.pc = "query" /\ slot.req.op = "register"
        /\ IF ByEmail(slot.data.email) # {}
           THEN Catch(h, Enter(slot, <<"read">>),
                      ConflictError("User with this email already exists"))
           ELSE /\ slots' = [slots EXCEPT ![h] = [Enter(slot, <<"read">>) EXCEPT !.pc = "save"]]
                /\ UNCHANGED logSink
        /\ UNCHANGED <<now, rlVars, tokVars, probes, users>>

\* UserSchema email: { unique: true }: the index admits a document only if
\* no stored document has its email
uniqueEmail_noIndex(accounts, email) == TRUE
uniqueEmail(accounts, email) ==
    \A i \in 1..Len(accounts) : accounts[i].email # email

NewUser(data) ==
    [NoUser EXCEPT !.id = "u" \o ToString(Len(users) + 1),
                   !.email = castEmail(data.email), !.password = Hash(data.password),
                   !.firstName = data.firstName, !.lastName = data.lastName,
                   !.role = data.role]

\* register, lines 73-99: user.save() against the unique index; token; 201
RegisterSave(h) ==
    LET slot == IF h \in DOMAIN slots THEN slots[h] ELSE IdleSlot
        user == NewUser(slot.data)
        token == generateToken([userId |-> user.id, email |-> user.email,
                                role |-> user.role], jwtSecret, now)
    IN  /\ h \in DOMAIN slots
        /\ slot.pc = "save"
        /\ IF ~uniqueEmail(users, user.email)
           THEN /\ Catch(h, Enter(slot, <<"write">>),
                         DuplicateKeyError("E11000 duplicate key error collection: users index: email_1"))
                /\ UNCHANGED users
           ELSE /\ users' = Append(users, user)
                /\ IF signRaises(jwtExpiresIn)
                   THEN Catch(h, Enter(slot, <<"write">>), SignError)
                   ELSE /\ Respond(h, Enter(slot, <<"write">>),
                                   TokenResponse(201, "Registration successful", user, token))
                        /\ UNCHANGED logSink
        /\ UNCHANGED <<now, rlVars, tokVars, probes>>

\* login, lines 58-60: if (!user) throw new AuthenticationError('Invalid email or password')
unknownEmail_reveals(email) == NotFoundError("User not found")
unknownEmail(email) == AuthenticationError("Invalid email or password")

\* login, lines 57-63: User.findOne({email}).select('+password'); up to comparePassword
LoginFindOne(h) ==
    LET slot == IF h \in DOMAIN slots THEN slots[h] ELSE IdleSlot
        hit == ByEmail(slot.data.email)
    IN  /\ h \in DOMAIN slots
        /\ slot.pc = "query" /\ slot.req.op = "login"
        /\ IF hit = {}
           THEN Catch(h, Enter(slot, <<"read">>), unknownEmail(slot.data.email))
           ELSE /\ slots' = [slots EXCEPT ![h] =
                                [Enter(slot, <<"read">>) EXCEPT
                                    !.pc = "compare",
                                    !.found = users[CHOOSE i \in hit : TRUE]]]
                /\ UNCHANGED logSink
        /\ UNCHANGED <<now, rlVars, tokVars, probes, users>>

\* login, lines 63-91: comparePassword resolves; token; 200
LoginCompare(h) ==
    LET slot == IF h \in DOMAIN slots THEN slots[h] ELSE IdleSlot
        user == slot.found
        token == generateToken([userId |-> user.id, email |-> user.email,
                                role |-> user.role], jwtSecret, now)
    IN  /\ h \in DOMAIN slots
        /\ slot.pc = "compare"
        /\ IF ~comparePassword(slot.data.password, user.password)
           THEN Catch(h, Enter(slot, <<"compare">>),
                      AuthenticationError("Invalid email or password"))
           ELSE IF signRaises(jwtExpiresIn)
           THEN Catch(h, Enter(slot, <<"compare">>), SignError)
           ELSE /\ Respond(h, Enter(slot, <<"compare">>), TokenResponse(200, "Login successful", user, token))
                /\ UNCHANGED logSink
        /\ UNCHANGED <<now, rlVars, tokVars, probes, users>>

\* profile GET, lines 117-125: User.findById(tokenPayload.userId)
ProfileFindById(h) ==
    LET slot == IF h \in DOMAIN slots THEN slots[h] ELSE IdleSlot
        hit == ById(slot.payload.userId)
    IN  /\ h \in DOMAIN slots
        /\ slot.pc = "query" /\ slot.req.op = "profileGet"
        /\ IF hit = {}
           THEN Catch(h, Enter(slot, <<"read">>), NotFoundError("User not found"))
           ELSE /\ Respond(h, Enter(slot, <<"read">>),
                           UserResponse("Profile retrieved successfully",
                                                 users[CHOOSE i \in hit : TRUE]))
                /\ UNCHANGED logSink
        /\ UNCHANGED <<now, rlVars, tokVars, probes, users>>

Patched(user, data) ==
    [f \in DOMAIN user |-> IF f \in DOMAIN data THEN data[f] ELSE user[f]]

\* profile PUT, lines 159-172: User.findByIdAndUpdate(userId, {...data, updatedAt})
ProfileUpdate(h) ==
    LET slot == IF h \in DOMAIN slots THEN slots[h] ELSE IdleSlot
        hit == ById(slot.payload.userId)
        i == CHOOSE j \in hit : TRUE
    IN  /\ h \in DOMAIN slots
        /\ slot.pc = "query" /\ slot.req.op = "profilePut"
        /\ IF hit = {}
           THEN /\ Catch(h, Enter(slot, <<"write">>), NotFoundError("User not found"))
                /\ UNCHANGED users
           ELSE /\ users' = [users EXCEPT ![i] = Patched(users[i], slot.data)]
                /\ Respond(h, Enter(slot, <<"write">>),
                           UserResponse("Profile updated successfully",
                                                 Patched(users[i], slot.data)))
                /\ UNCHANGED logSink
        /\ UNCHANGED <<now, rlVars, tokVars, probes>>

\* the response has been sent; the next request is taken up
Recycle(h) ==
    /\ h \in DOMAIN slots
    /\ slots[h].pc = "done"
    /\ slots' = [slots EXCEPT ![h] = IdleSlot]
    /\ UNCHANGED <<now, rlVars, tokVars, fmtVars, users>>

\* time passes
Advance(t) ==
    /\ t > now
    /\ now' = t
    /\ lastCall' = NoCall
    /\ UNCHANGED <<requests, win, solo, served, tokVars, fmtVars, appVars>>

\* the state with no request taken up yet, served by the handlers `hs`
StartWith(hs, accounts, expiresIn) ==
    /\ now = 0
    /\ RLIdle
    /\ jwtSecret = "insecure_default_secret"
    /\ jwtExpiresIn = expiresIn
    /\ held = NoHeld
    /\ lastVerify = NoVerify
    /\ lastExtract = NoExtract
    /\ probes = [i \in {"A", "B"} |-> NoProbe]
    /\ logSink = {}
    /\ slots = [h \in hs |-> IdleSlot]
    /\ users = accounts

\* the same, with the environment left at its defaults
Start(hs, accounts) == StartWith(hs, accounts, "7d")

(***************************************************************************)
(* Spec: the four handlers, one request served at a time.                  *)
(***************************************************************************)
Init == Start({"h1"}, <<>>)

Next ==
    \/ \E h \in Slots, req \in AuthRequests("register", {"203.0.113.7"}, RegisterBodies) :
          PostRegister(h, req)
    \/ \E h \in Slots, req \in AuthRequests("login", {"203.0.113.7"}, LoginBodies) :
          PostLogin(h, req)
    \/ \E h \in Slots : \E req \in ProfileRequests("profileGet", {MalformedBody}, now) :
          GetProfile(h, req)
    \/ \E h \in Slots : \E req \in ProfileRequests("profilePut", UpdateBodies, now) :
          PutProfile(h, req)
    \/ \E h \in Slots : ParseBody(h)
    \/ \E h \in Slots : Connect(h)
    \/ \E h \in Slots : ConnectFails(h)
    \/ \E h \in Slots : RegisterFindOne(h)
    \/ \E h \in Slots : RegisterSave(h)
    \/ \E h \in Slots : LoginFindOne(h)
    \/ \E h \in Slots : LoginCompare(h)
    \/ \E h \in Slots : ProfileFindById(h)
    \/ \E h \in Slots : ProfileUpdate(h)
    \/ \E h \in Slots : Recycle(h)

Spec == Init /\ [][Next]_vars

(***************************************************************************)
(* SpecConc: register requests served concurrently, from a client with an  *)
(* address and from clients without one, as time passes.                   *)
(***************************************************************************)
ConcBodies == {Body([email |-> "not-an-email"])}

ConcInit == Start(Slots, <<>>)

ConcNext ==
    \/ \E t \in Times : Advance(t)
    \/ \E h \in Slots, req \in AuthRequests("register", ClientIPs, ConcBodies) :
          PostRegister(h, req)
    \/ \E h \in Slots : ParseBody(h)
    \/ \E h \in Slots : Recycle(h)

SpecConc == ConcInit /\ [][ConcNext]_vars

(***************************************************************************)
(* SpecProfile: profile reads and updates served concurrently, on a store  *)
(* that holds an account created earlier.                                  *)
(***************************************************************************)
Account1 ==
    [NoUser EXCEPT !.id = "u1", !.email = "a@x.io", !.password = Hash("Passw0rd1"),
                   !.firstName = "Ann", !.lastName = "Lee", !.role = "candidate"]

ProfInit == Start(Slots, <<Account1>>)

ProfNext ==
    \/ \E h \in Slots : \E req \in ProfileRequests("profileGet", {MalformedBody}, now) :
          GetProfile(h, req)
    \/ \E h \in Slots : \E req \in ProfileRequests("profilePut", UpdateBodies, now) :
          PutProfile(h, req)
    \/ \E h \in Slots : ParseBody(h)
    \/ \E h \in Slots : Connect(h)
    \/ \E h \in Slots : ConnectFails(h)
    \/ \E h \in Slots : ProfileFindById(h)
    \/ \E h \in Slots : ProfileUpdate(h)
    \/ \E h \in Slots : Recycle(h)

SpecProfile == ProfInit /\ [][ProfNext]_vars

(***************************************************************************)
(* C2: under any interleaving of concurrently served requests that hit the *)
(* same key within one window, no increment is lost and none is counted    *)
(* twice: after n checks the stored count is n and min(n, limit) of the    *)
(* requests were admitted.                                                 *)
(***************************************************************************)
C2_NoLostUpdate ==
    \A key \in DOMAIN requests :
        /\ key \in DOMAIN win
        /\ requests[key].count = win[key].n
        /\ win[key].adm = Min(win[key].n, AUTH_limit)

\* two requests of one key in flight together, the later one denied as the sixth
C2_Witness ==
    /\ slots["h1"].pc = "json"
    /\ slots["h2"].pc = "done"
    /\ slots["h2"].response.status = 429
    /\ clientKey(slots["h1"].req.op, slots["h1"].req.ip)
          = clientKey(slots["h2"].req.op, slots["h2"].req.ip)
    /\ requests[clientKey(slots["h1"].req.op, slots["h1"].req.ip)].count = AUTH_limit + 1

(***************************************************************************)
(* C3: every operation runs the rate-limit check first: no request reaches *)
(* body parsing, token verification or the storage collaborator unless     *)
(* rateLimiter.check has admitted it.                                      *)
(***************************************************************************)
C3_RateCheckFirst ==
    \A h \in DOMAIN slots :
        (\/ slots[h].pc \in {"json", "connect", "query", "save", "compare"}
         \/ slots[h].verified)
            => slots[h].admitted

(***************************************************************************)
(* C6: a token with a valid signature whose expiry has passed gets the     *)
(* same outward result as a token with a corrupted signature or a          *)
(* malformed token: verifyToken gives null, and the profile operations     *)
(* answer all of them with the same 401 response.                          *)
(***************************************************************************)
Presented(req) == extractTokenFromRequest(req).token

ExpiredToken(token) ==
    /\ SignatureVerifies(token, jwtSecret)
    /\ ToSeconds(now) >= token.claims.exp
CorruptedToken(token) == token.form = "jwt" /\ ~SignatureVerifies(token, jwtSecret)
MalformedToken(token) == token.form = "malformed"

RejectedCredential(req) ==
    /\ ~extractTokenFromRequest(req).isNull
    /\ \/ ExpiredToken(Presented(req))
       \/ CorruptedToken(Presented(req))
       \/ MalformedToken(Presented(req))

C6_ExpiryLikeForgery ==
    \A h, g \in DOMAIN slots :
        (/\ slots[h].pc = "done" /\ RejectedCredential(slots[h].req)
         /\ slots[g].pc = "done" /\ RejectedCredential(slots[g].req))
            => /\ slots[h].response = slots[g].response
               /\ slots[h].payload = NoClaims
               /\ slots[h].response.status = 401
               /\ slots[h].response.code = "AUTHENTICATION_ERROR"
               /\ slots[h].response.error = "Authentication token required"

\* an expired token and a corrupted one, both answered
C6_Witness ==
    /\ slots["h1"].pc = "done" /\ slots["h2"].pc = "done"
    /\ ~extractTokenFromRequest(slots["h1"].req).isNull
    /\ ~extractTokenFromRequest(slots["h2"].req).isNull
    /\ ExpiredToken(Presented(slots["h1"].req))
    /\ CorruptedToken(Presented(slots["h2"].req))
    /\ slots["h1"].req.op = "profileGet"
    /\ slots["h2"].req.op = "profilePut"
    /\ slots["h1"].response.status = 401

(***************************************************************************)
(* C11: for the k-th check of a key inside one window, remaining =         *)
(* max(0, limit - k) and the returned reset is the time of the window's    *)
(* first check plus windowMs; an admitted and a denied check alike leave   *)
(* the stored resetTime of the window as it was.                           *)
(***************************************************************************)
C11_RemainingAndReset ==
    lastCall.made =>
        LET k == win[lastCall.key].n
        IN  /\ lastCall.remaining = (IF lastCall.limit - k > 0 THEN lastCall.limit - k ELSE 0)
            /\ lastCall.reset = win[lastCall.key].reset
            /\ requests[lastCall.key].resetTime = win[lastCall.key].reset
            /\ (k > 1 => /\ lastCall.had
                         /\ requests[lastCall.key].resetTime = lastCall.prevReset)

\* a denied check, later than the window's first one, with the reset unchanged
C11_Witness ==
    /\ lastCall.made
    /\ ~lastCall.success
    /\ win[lastCall.key].n = lastCall.limit + 1
    /\ lastCall.remaining = 0
    /\ lastCall.at > 0
    /\ lastCall.reset = lastCall.prevReset
    /\ lastCall.reset < lastCall.at + lastCall.windowMs

(***************************************************************************)
(* C12: a failure at any stage ends the request without entering a later   *)
(* stage: a request denied by the rate limit never parses its body and     *)
(* never reaches storage; a request that fails validation never reaches    *)
(* storage; no failure response carries a token or sets the token cookie.  *)
(***************************************************************************)
Stages(slot) == {slot.trace[i] : i \in 1..Len(slot.trace)}
StorageStages == {"connect", "read", "compare", "write"}
FailsValidation(req) == ~req.body.malformed /\ ~safeParse(req.op, req.body).success

C12_FailureEndsRequest ==
    \A h \in DOMAIN slots :
        LET slot == slots[h]
        IN  /\ (slot.checked /\ ~slot.admitted)
                  => /\ slot.pc = "done"
                     /\ slot.trace = <<"rate">>
                     /\ slot.data = NoData
            /\ ("validate" \in Stages(slot) /\ FailsValidation(slot.req))
                  => /\ slot.pc = "done"
                     /\ Stages(slot) \cap StorageStages = {}
                     /\ slot.response.status = 400
            /\ "format" \in Stages(slot)
                  => /\ slot.pc = "done"
                     /\ slot.trace[Len(slot.trace)] = "format"
            /\ (slot.pc = "done" /\ slot.response.status >= 400)
                  => /\ ~slot.response.hasToken
                     /\ ~slot.response.setCookie

\* a registration that failed validation, answered after the accounts store was in use
C12_Witness ==
    /\ slots["h1"].pc = "done"
    /\ slots["h1"].req.op = "register"
    /\ FailsValidation(slots["h1"].req)
    /\ slots["h1"].trace = <<"rate", "json", "validate", "format">>
    /\ slots["h1"].response.code = "VALIDATION_ERROR"
    /\ Len(users) > 0

(***************************************************************************)
(* SpecAccess: all four handlers served concurrently on a store that holds *)
(* an account; register and login requests come with and without           *)
(* credentials.                                                            *)
(***************************************************************************)
PublicCredentials(t) ==
    {NoHeader, Bearer(Malformed)}
    \cup {Bearer(IssuedNow(p, t)) : p \in {q \in Payloads : q.userId = "u1"}}

PublicRequests(op, bodies, t) ==
    {[op |-> op, ip |-> "203.0.113.7", header |-> c, cookie |-> NoCookie, body |-> b] :
        c \in PublicCredentials(t), b \in bodies}

AccessRegisterBodies ==
    {Body([email |-> "not-an-email"]),
     Body([email |-> "b@x.io", password |-> "Passw0rd1", firstName |-> "Ann",
           lastName |-> "Ann", role |-> "recruiter"])}

AccessLoginBodies ==
    {Body([email |-> "a@x.io", password |-> "Passw0rd1"]),
     Body([email |-> "a@x.io", password |-> "Other0ne2"])}

AccessUpdateBodies == {Body([firstName |-> "Ann", phone |-> "+1 555-0100"])}

\* the state after `n` requests of each key, all refused by validation,
\* were served at time 0
AfterRequests(pairs, n, accounts) ==
    LET keys == {clientKey(p[1], p[2]) : p \in pairs} IN
    /\ now = 0
    /\ served = [p \in pairs |-> [reset |-> AUTH_windowMs, n |-> n, adm |-> n]]
    /\ requests = [k \in keys |-> [count |-> n, resetTime |-> AUTH_windowMs]]
    /\ win = [k \in keys |-> [reset |-> AUTH_windowMs, n |-> n, adm |-> n]]
    /\ solo = [k \in keys |-> [j \in {k} |-> [count |-> n, resetTime |-> AUTH_windowMs]]]
    /\ lastCall = NoCall
    /\ jwtSecret = "insecure_default_secret"
    /\ jwtExpiresIn = "7d"
    /\ held = NoHeld
    /\ lastVerify = NoVerify
    /\ lastExtract = NoExtract
    /\ probes = [i \in {"A", "B"} |-> NoProbe]
    /\ logSink = {}
    /\ slots = [h \in Slots |-> IdleSlot]
    /\ users = accounts

AccessInit ==
    AfterRequests({<<"register", "203.0.113.7">>, <<"login", "203.0.113.7">>},
                  AUTH_limit - 2, <<Account1>>)

AccessNext ==
    \/ \E h \in Slots : \E req \in PublicRequests("register", AccessRegisterBodies, now) :
          PostRegister(h, req)
    \/ \E h \in Slots : \E req \in PublicRequests("login", AccessLoginBodies, now) :
          PostLogin(h, req)
    \/ \E h \in {"h1"} : \E req \in ProfileRequests("profileGet", {MalformedBody}, now) :
          GetProfile(h, req)
    \/ \E h \in {"h1"} : \E req \in ProfileRequests("profilePut", AccessUpdateBodies, now) :
          PutProfile(h, req)
    \/ \E h \in Slots : ParseBody(h)
    \/ \E h \in Slots : Connect(h)
    \/ \E h \in Slots : RegisterFindOne(h)
    \/ \E h \in Slots : RegisterSave(h)
    \/ \E h \in Slots : LoginFindOne(h)
    \/ \E h \in Slots : LoginCompare(h)
    \/ \E h \in Slots : ProfileFindById(h)
    \/ \E h \in Slots : ProfileUpdate(h)
    \/ \E h \in Slots : Recycle(h)

SpecAccess == AccessInit /\ [][AccessNext]_vars

(***************************************************************************)
(* C13: profile read and profile update reach the storage collaborator     *)
(* only after verifyToken returned a payload for the credential of that    *)
(* same request; register and login never verify a token, so their outcome *)
(* is the same with no credential, an invalid one or a valid one.          *)
(***************************************************************************)
ProfileOps == {"profileGet", "profilePut"}
PublicOps == {"register", "login"}

AtStorage(slot) ==
    \/ slot.pc \in {"connect", "query", "save", "compare"}
    \/ Stages(slot) \cap StorageStages # {}

C13_StorageOnlyWhenVerified ==
    /\ \A h \in DOMAIN slots :
          (slots[h].req.op \in ProfileOps /\ AtStorage(slots[h]))
              => /\ slots[h].verified
                 /\ SignatureVerifies(Presented(slots[h].req), jwtSecret)
                 /\ ToSeconds(now) < Presented(slots[h].req).claims.exp
                 /\ slots[h].payload = Presented(slots[h].req).claims
    /\ \A h \in DOMAIN slots :
          slots[h].req.op \in PublicOps
              => /\ ~slots[h].verified
                 /\ slots[h].payload = NoClaims
                 /\ "auth" \notin Stages(slots[h])
    /\ \A h, g \in DOMAIN slots :
          (/\ slots[h].pc = "done" /\ slots[g].pc = "done"
           /\ slots[h].req.op \in PublicOps
           /\ slots[h].req.op = slots[g].req.op
           /\ slots[h].req.ip = slots[g].req.ip
           /\ slots[h].req.body = slots[g].req.body
           /\ slots[h].admitted = slots[g].admitted
           /\ users = <<Account1>>)
              => slots[h].response = slots[g].response

\* the same login sent without a credential and with an invalid one, both answered 200
C13_Witness ==
    /\ slots["h1"].pc = "done" /\ slots["h2"].pc = "done"
    /\ slots["h1"].req.op = "login" /\ slots["h2"].req.op = "login"
    /\ slots["h1"].req.body = slots["h2"].req.body
    /\ slots["h1"].req.header = NoHeader
    /\ slots["h2"].req.header = Bearer(Malformed)
    /\ slots["h1"].response.status = 200
    /\ slots["h1"].response.hasToken
    /\ slots["h2"].response.status = 200
    /\ users = <<Account1>>

(***************************************************************************)
(* C14, as stated: in profile update, input validation runs before token   *)
(* verification: a request whose body violates the schema and whose        *)
(* credential is missing or invalid ends with the VALIDATION failure       *)
(* (400), not the AUTHENTICATION failure (401).                            *)
(***************************************************************************)
InvalidCredential(req) ==
    LET x == extractTokenFromRequest(req)
    IN  IF x.isNull THEN TRUE
        ELSE \/ x.token.form # "jwt"
             \/ ~SignatureVerifies(x.token, jwtSecret)
             \/ ToSeconds(now) >= x.token.claims.exp

C15_FormatterNeverRaises ==
    \A i \in {"A", "B"} :
        probes[i].made
            => /\ ~probes[i].envelope.raised
               /\ probes[i].envelope.statusCode \in 400..599
               /\ probes[i].envelope.code # ""

(***************************************************************************)
(* C16: every failure response body, from every handler and for every      *)
(* failure kind, the rate-limit denial included, has the fields error,     *)
(* code and statusCode, with statusCode equal to the HTTP status; a        *)
(* rate-limit denial carries its reset time under details.                 *)
(***************************************************************************)
C16_FailureBodyShape ==
    \A h \in DOMAIN slots :
        (slots[h].pc = "done" /\ slots[h].response.status >= 400)
            => /\ slots[h].response.error # ""
               /\ slots[h].response.code # ""
               /\ slots[h].response.hasStatusCode
               /\ slots[h].response.status = 429
                     => /\ slots[h].response.hasDetails
                        /\ ~slots[h].response.hasRetryAfter

(***************************************************************************)
(* SpecInput: register and login requests, one at a time, over bodies that *)
(* combine conformant and violating values of every field.                 *)
(***************************************************************************)
Absent == "(absent)"
InputEmails == {Absent, "a@x.io", "not-an-email", "", "USER@Example.com", "  USER@Example.com "}
InputPasswords == {Absent, "Passw0rd1", "abc", "Abcdef1", "abcdefgh"}
InputLoginPasswords == {Absent, "Passw0rd1", ""}
InputFirstNames == {"Ann", ""}
InputRoles == {Absent, "recruiter", "admin"}

\* the JSON object with the fields given, those marked absent left out
BodyOf(given) ==
    Body([f \in {g \in DOMAIN given : given[g] # Absent} |-> given[f]])

InputRegisterBodies ==
    {BodyOf([email |-> e, password |-> p, firstName |-> n, lastName |-> " Lee ",
             role |-> r]) :
        e \in InputEmails, p \in InputPasswords, n \in InputFirstNames, r \in InputRoles}

InputLoginBodies ==
    {BodyOf([email |-> e, password |-> p]) : e \in InputEmails, p \in InputLoginPasswords}

InputInit == Start({"h1"}, <<>>)

InputNext ==
    \/ \E h \in Slots, req \in AuthRequests("register", {"203.0.113.7"}, InputRegisterBodies) :
          PostRegister(h, req)
    \/ \E h \in Slots, req \in AuthRequests("login", {"203.0.113.7"}, InputLoginBodies) :
          PostLogin(h, req)
    \/ \E h \in Slots : ParseBody(h)
    \/ \E h \in Slots : Connect(h)
    \/ \E h \in Slots : RegisterFindOne(h)
    \/ \E h \in Slots : RegisterSave(h)
    \/ \E h \in Slots : LoginFindOne(h)
    \/ \E h \in Slots : LoginCompare(h)
    \/ \E h \in Slots : Recycle(h)

SpecInput == InputInit /\ [][InputNext]_vars

(***************************************************************************)
(* C17: validation never stops at the first violation: the fieldErrors a   *)
(* handler builds have an entry for every field that violates its schema,  *)
(* and for each such field one message per violated rule, in the order the *)
(* rules are declared.                                                     *)
(***************************************************************************)
When(violated, message) == IF violated THEN <<message>> ELSE <<>>

\* the rules of each field of a registration or login, one after another
RuleMessages(op, f, body) ==
    IF f \notin DOMAIN body.fields
    THEN When(~(op = "register" /\ f = "role"), "Required")
    ELSE LET i == StrInfo(body.fields[f])
         IN  CASE f = "email" ->
                    When(~i.email, "Invalid email format")
                    \o When(i.len = 0, "Email is required")
               [] f = "password" /\ op = "register" ->
                    When(i.len < 8, "Password must be at least 8 characters long")
                    \o When(~i.lower \/ ~i.upper \/ ~i.digit,
                            "Password must contain at least one uppercase letter, one lowercase letter, and one number")
               [] f = "password" /\ op = "login" ->
                    When(i.len = 0, "Password is required")
               [] f = "firstName" ->
                    When(i.len = 0, "First name is required")
                    \o When(i.len > 50, "First name cannot exceed 50 characters")
               [] f = "lastName" ->
                    When(i.len = 0, "Last name is required")
                    \o When(i.len > 50, "Last name cannot exceed 50 characters")
               [] OTHER ->
                    When(body.fields[f] \notin {"candidate", "recruiter"}, "Invalid enum value")

SchemaFields(op) ==
    IF op = "register" THEN {"email", "password", "firstName", "lastName", "role"}
    ELSE {"email", "password"}

C17_AllViolationsReported ==
    \A h \in DOMAIN slots :
        LET slot == slots[h]
            violating == {f \in SchemaFields(slot.req.op) :
                             RuleMessages(slot.req.op, f, slot.req.body) # <<>>}
        IN  (slot.pc = "done" /\ "validate" \in Stages(slot) /\ violating # {})
                => /\ slot.response.status = 400
                   /\ slot.response.code = "VALIDATION_ERROR"
                   /\ slot.response.hasDetails
                   /\ DOMAIN slot.response.details = violating
                   /\ \A f \in violating :
                         slot.response.details[f] = RuleMessages(slot.req.op, f, slot.req.body)

\* email, password (both of its rules) and firstName violated in one registration
C17_Witness ==
    /\ slots["h1"].pc = "done"
    /\ slots["h1"].req.op = "register"
    /\ "validate" \in Stages(slots["h1"])
    /\ slots["h1"].req.body.fields =
          [email |-> "not-an-email", password |-> "abc", firstName |-> "",
           lastName |-> " Lee "]
    /\ DOMAIN slots["h1"].response.details = {"email", "password", "firstName"}
    /\ Len(slots["h1"].response.details["password"]) = 2

(***************************************************************************)
(* C18: validating registration or login input whose email is conformant   *)
(* apart from surrounding whitespace and letter case yields no error for   *)
(* it and a normalized value whose email is trimmed and lower-cased; the   *)
(* handlers use that normalized value downstream.                          *)
(***************************************************************************)
Normalized(email) == toLowerCase(StrInfo(email).trimmed)

ConformantApartFromCaseAndSpace(body) ==
    /\ ~body.malformed
    /\ "email" \in DOMAIN body.fields
    /\ StrInfo(Normalized(body.fields.email)).email

C18_EmailNormalized ==
    \A h \in DOMAIN slots :
        (/\ slots[h].req.op \in {"register", "login"}
         /\ "validate" \in Stages(slots[h])
         /\ ConformantApartFromCaseAndSpace(slots[h].req.body))
            => /\ "email" \notin DOMAIN slots[h].response.details
               /\ slots[h].data # NoData
                     => slots[h].data.email = Normalized(slots[h].req.body.fields.email)

(***************************************************************************)
(* SpecExtract: extractTokenFromRequest on its own, over every Authorization *)
(* header and token cookie a request can carry.                            *)
(***************************************************************************)
\* token strings that are not empty
ExtractTokens ==
    {Malformed}
    \cup {generateToken(p, jwtSecret, 0) : p \in Payloads}
    \cup {Forge(p, 0) : p \in Payloads}
    \cup {TamperRole(generateToken(p, jwtSecret, 0)) : p \in Payloads}

\* a header value has no trailing whitespace, so 'Bearer ' is followed by a token
ExtractHeaders == {NoHeader} \cup {Basic(t) : t \in ExtractTokens}
                             \cup {Bearer(t) : t \in ExtractTokens}
\* a cookie named token may have the empty value
ExtractCookies == {NoCookie, Cookie(Empty)} \cup {Cookie(t) : t \in ExtractTokens}

ExtInit == Start({"h1"}, <<>>)

\* extractTokenFromRequest(request)
Extract(header, cookie) ==
    LET x == extractTokenFromRequest([NoRequest EXCEPT !.header = header,
                                                       !.cookie = cookie])
    IN  /\ lastExtract' = [made |-> TRUE, header |-> header, cookie |-> cookie,
                           isNull |-> x.isNull, token |-> x.token]
        /\ UNCHANGED <<now, rlVars, jwtSecret, jwtExpiresIn, held, lastVerify, fmtVars, appVars>>

ExtNext == \E header \in ExtractHeaders, cookie \in ExtractCookies : Extract(header, cookie)

SpecExtract == ExtInit /\ [][ExtNext]_vars

(***************************************************************************)
(* C19: extractTokenFromRequest returns the token of the Authorization     *)
(* header when the header has the form 'Bearer <token>'; otherwise the     *)
(* value of the token cookie when one is present; it returns null exactly  *)
(* when neither supplies a token; it changes nothing.                      *)
(***************************************************************************)
HeaderSupplies(header) == header.present /\ header.bearer /\ header.token # Empty
CookieSupplies(cookie) == cookie.present /\ cookie.token # Empty

C19_HeaderThenCookie ==
    lastExtract.made =>
        /\ HeaderSupplies(lastExtract.header)
              => ~lastExtract.isNull /\ lastExtract.token = lastExtract.header.token
        /\ (~HeaderSupplies(lastExtract.header) /\ CookieSupplies(lastExtract.cookie))
              => ~lastExtract.isNull /\ lastExtract.token = lastExtract.cookie.token
        /\ lastExtract.isNull
              <=> ~HeaderSupplies(lastExtract.header) /\ ~CookieSupplies(lastExtract.cookie)
        /\ requests = EmptyMap /\ users = <<>> /\ logSink = {} /\ held = NoHeld

\* a Bearer header and a cookie with different tokens: the header's is returned
C19_Witness ==
    /\ lastExtract.made
    /\ HeaderSupplies(lastExtract.header)
    /\ CookieSupplies(lastExtract.cookie)
    /\ lastExtract.header.token # lastExtract.cookie.token
    /\ ~lastExtract.isNull
    /\ lastExtract.token = lastExtract.header.token

(***************************************************************************)
(* C20: for login and for registration, per client address, at most 5      *)
(* requests of a 15-minute window pass the rate check, every request       *)
(* counting alike whatever became of it; every further request of the      *)
(* window is answered 429, RATE_LIMIT_EXCEEDED, with X-RateLimit-Limit 5,  *)
(* X-RateLimit-Remaining 0 and X-RateLimit-Reset the window's reset time.  *)
(***************************************************************************)
C20_FivePerWindow ==
    /\ \A key \in DOMAIN win :
          /\ win[key].adm <= 5
          /\ win[key].adm = Min(win[key].n, 5)
          /\ win[key].reset - 900000 <= now
    /\ \A h \in DOMAIN slots :
          LET slot == slots[h]
              key == clientKey(slot.req.op, slot.req.ip)
          IN  /\ (slot.req.op \in PublicOps /\ slot.pc # "idle") => slot.checked
              /\ (slot.checked /\ ~slot.admitted)
                    => /\ slot.pc = "done"
                       /\ win[key].n > 5
                       /\ slot.response.status = 429
                       /\ slot.response.code = "RATE_LIMIT_EXCEEDED"
                       /\ slot.response.hasRateHeaders
                       /\ slot.response.rlLimit = 5
                       /\ slot.response.rlRemaining = 0
                       /\ slot.response.rlReset = toISOString(win[key].reset)

\* the sixth registration of a window in which one registration succeeded,
\* one failed validation and one sent no JSON
C20_Witness ==
    /\ slots["h1"].pc = "done"
    /\ slots["h1"].req.op = "register"
    /\ slots["h1"].response.status = 429
    /\ win[clientKey("register", slots["h1"].req.ip)].n = 6
    /\ Len(users) = 1
    /\ logSink # {}
    /\ "login:203.0.113.7" \notin DOMAIN win

(***************************************************************************)
(* C21: a register, login or profile-update request whose body cannot be   *)
(* parsed ends with the VALIDATION kind and status 400, never with the     *)
(* INTERNAL kind.                                                          *)
(***************************************************************************)
C21_MalformedBodyIsValidation ==
    \A h \in DOMAIN slots :
        (/\ slots[h].pc = "done"
         /\ slots[h].req.op \in {"register", "login", "profilePut"}
         /\ slots[h].req.body.malformed
         /\ "json" \in Stages(slots[h]))
            => /\ slots[h].response.status = 400
               /\ slots[h].response.code = "VALIDATION_ERROR"
               /\ slots[h].response.code # "INTERNAL_ERROR"

(***************************************************************************)
(* C22: a counter entry is created only when its key is first checked and  *)
(* is removed only by the sweep a check runs; after any call to check at   *)
(* time now the table holds no entry of another key whose window has       *)
(* already expired (resetTime < now).                                      *)
(***************************************************************************)
EntryLifecycle ==
    \A k \in RLKeys :
        /\ (k \notin DOMAIN requests /\ k \in DOMAIN requests')
              => (lastCall'.made /\ lastCall'.key = k /\ ~lastCall'.had)
        /\ (k \in DOMAIN requests /\ k \notin DOMAIN requests')
              => (lastCall'.made /\ lastCall'.key # k)

NoExpiredEntryLeft ==
    lastCall.made =>
        \A k \in DOMAIN requests \ {lastCall.key} :
            ~(requests[k].resetTime < lastCall.at)

C22_SweepLeavesNoExpiredEntry == [][EntryLifecycle]_vars /\ []NoExpiredEntryLeft

(***************************************************************************)
(* C23: no sequence of register requests creates an account whose role is  *)
(* 'admin': the role of every created account, and of every token issued   *)
(* at registration, is 'candidate' or 'recruiter', and it is 'candidate'   *)
(* when the input names no role.                                           *)
(***************************************************************************)
PublicRoles == {"candidate", "recruiter"}

Registered(slot) ==
    slot.pc = "done" /\ slot.req.op = "register" /\ slot.response.status = 201

C23_NoAdminByRegistration ==
    /\ \A i \in 1..Len(users) : users[i].role \in PublicRoles
    /\ \A h \in DOMAIN slots :
          Registered(slots[h]) =>
              LET r == slots[h].response
                  body == slots[h].req.body
              IN  /\ r.hasToken /\ r.hasUser
                  /\ r.token.claims.role \in PublicRoles
                  /\ r.user.role = r.token.claims.role
                  /\ \E i \in 1..Len(users) :
                        users[i].id = r.user.id /\ users[i].role = r.user.role
                  /\ IF Has(body, "role")
                     THEN r.user.role = body.fields.role
                     ELSE r.user.role = "candidate"

\* two accounts exist, one registered naming no role and one as recruiter,
\* the latest just answered 201
C23_Witness ==
    /\ \E i, j \in 1..Len(users) :
          users[i].role = "candidate" /\ users[j].role = "recruiter"
    /\ \E h \in DOMAIN slots :
          Registered(slots[h]) /\ ~Has(slots[h].req.body, "role")

(***************************************************************************)
(* SpecRace: two register requests served concurrently on an empty store,  *)
(* each taken through its awaited steps in any interleaving.               *)
(***************************************************************************)
RaceBodies ==
    {Body([email |-> e, password |-> p, firstName |-> "Ann", lastName |-> " Lee "]) :
        e \in {"a@x.io", "USER@Example.com", "user@example.com"},
        p \in {"Passw0rd1", "Other0ne2"}}

RaceInit == Start(Slots, <<>>)

RaceNext ==
    \/ \E h \in Slots, req \in AuthRequests("register", ClientIPs, RaceBodies) :
          PostRegister(h, req)
    \/ \E h \in Slots : ParseBody(h)
    \/ \E h \in Slots : Connect(h)
    \/ \E h \in Slots : ConnectFails(h)
    \/ \E h \in Slots : RegisterFindOne(h)
    \/ \E h \in Slots : RegisterSave(h)

SpecRace == RaceInit /\ [][RaceNext]_vars

(***************************************************************************)
(* C24: under any interleaving of concurrent register requests for the     *)
(* same email, at most one account is ever created for that email, exactly *)
(* one of the requests gets the 201 success with a token, and every other  *)
(* one gets a 409 conflict response.                                       *)
(***************************************************************************)
\* the request has been answered after it reached the store
AnsweredByStore(slot) ==
    slot.pc = "done" /\ slot.req.op = "register" /\ "read" \in Stages(slot)

SameEmail(a, b) == castEmail(a.data.email) = castEmail(b.data.email)

Created(slot) ==
    slot.response.status = 201 /\ slot.response.hasToken /\ slot.response.setCookie

C25_OtherKeysUnaffected ==
    lastCall.made =>
        /\ lastCall.success = lastCall.alone.success
        /\ lastCall.remaining = lastCall.alone.remaining
        /\ lastCall.reset = lastCall.alone.reset
        /\ requests[lastCall.key] = solo[lastCall.key][lastCall.key]

\* the key just checked had been checked before and its entry had since been
\* swept by a check of the other key, whose own entry ends at another time
C25_Witness ==
    /\ lastCall.made /\ lastCall.hadWin /\ ~lastCall.had
    /\ \E k \in DOMAIN requests \ {lastCall.key} :
          requests[k].resetTime - lastCall.at # lastCall.windowMs
    /\ lastCall.key \in DOMAIN solo

(***************************************************************************)
(* SpecCookie: profile reads by callers that present a token in the        *)
(* Authorization header, in the token cookie, or in both.                  *)
(***************************************************************************)
CookieHeaders(t) ==
    {NoHeader, Bearer(Malformed)}
    \cup {Bearer(IssuedNow(p, t)) : p \in Payloads}
    \cup {Bearer(IssuedLifetimeAgo(p, t)) : p \in {q \in Payloads : q.userId = "u1"}}
    \cup {Bearer(Forge(p, t)) : p \in {q \in Payloads : q.userId = "u1"}}

Cookies(t) ==
    {NoCookie, Cookie(Malformed)} \cup {Cookie(IssuedNow(p, t)) : p \in Payloads}

CookieRequests(t) ==
    {[op |-> "profileGet", ip |-> "203.0.113.7", header |-> h, cookie |-> c,
      body |-> MalformedBody] : h \in CookieHeaders(t), c \in Cookies(t)}

CookieInit == Start(Slots, <<Account1>>)

CookieNext ==
    \/ \E h \in Slots : \E req \in CookieRequests(now) : GetProfile(h, req)
    \/ \E h \in Slots : Connect(h)
    \/ \E h \in Slots : ProfileFindById(h)
    \/ \E h \in Slots : Recycle(h)

SpecCookie == CookieInit /\ [][CookieNext]_vars

(***************************************************************************)
(* C26: when a request carries an Authorization header beginning with      *)
(* 'Bearer ', the cookie is never consulted: the authentication outcome    *)
(* depends on the header token alone, so a request with an invalid header  *)
(* token is rejected as unauthenticated even if it also carries a valid    *)
(* token cookie.                                                           *)
(***************************************************************************)
ValidToken(token) ==
    \E p \in Payloads : token = IssuedNow(p, now)

Unauthenticated(slot) ==
    /\ slot.pc = "done"
    /\ slot.response.status = 401
    /\ slot.response.code = "AUTHENTICATION_ERROR"
    /\ ~slot.response.hasUser
    /\ Stages(slot) \cap StorageStages = {}

ExpiresInSettings == {"7d", "forever"}

EnvInit == \E e \in ExpiresInSettings : StartWith({"h1"}, <<>>, e)

EnvNext ==
    \/ \E h \in Slots, req \in AuthRequests("register", {"203.0.113.7"}, RegisterBodies) :
          PostRegister(h, req)
    \/ \E h \in Slots : ParseBody(h)
    \/ \E h \in Slots : Connect(h)
    \/ \E h \in Slots : ConnectFails(h)
    \/ \E h \in Slots : RegisterFindOne(h)
    \/ \E h \in Slots : RegisterSave(h)
    \/ \E h \in Slots : Recycle(h)

SpecEnv == EnvInit /\ [][EnvNext]_vars

(***************************************************************************)
(* C27: whenever a register request ends with a failure response, the user *)
(* store is as it was before that request: no account is persisted by a    *)
(* request that reports failure, on any error path (rate-limit denial,     *)
(* validation failure, existing email, storage failure, failure after the  *)
(* save).  As a property of steps: a step of a register request changes    *)
(* the store only if it is the step that answers 201.                      *)
(***************************************************************************)
FailureKeepsStore ==
    \A h \in DOMAIN slots :
        (slots'[h] # slots[h] /\ slots'[h].req.op = "register" /\ users' # users)
            => (slots'[h].pc = "done" /\ slots'[h].response.status = 201)

C27_FailureKeepsStore == [][FailureKeepsStore]_vars

(***************************************************************************)
(* SpecUpdate: profile updates on a store of two accounts, by callers with *)
(* a token of either account, a forged token or none, whose bodies name    *)
(* profile fields and fields that are not theirs to change.                *)
(***************************************************************************)
Account2 ==
    [NoUser EXCEPT !.id = "u2", !.email = "b@x.io", !.password = Hash("Passw0rd1"),
                   !.firstName = "Ann", !.lastName = "Ann", !.role = "recruiter"]

FrameBodies ==
    {Body([firstName |-> "abc", phone |-> "+1 555-0100"]),
     Body([bio |-> "abc", email |-> "b@x.io", password |-> "Other0ne2",
           role |-> "admin", id |-> "u2"]),
     Body([role |-> "admin"]),
     Body([phone |-> "call me", role |-> "admin"])}

FrameCredentials(t) ==
    {NoHeader}
    \cup {Bearer(IssuedNow(p, t)) : p \in Payloads}
    \cup {Bearer(Forge(p, t)) : p \in {q \in Payloads : q.userId = "u2"}}
    \cup {Bearer(TamperRole(IssuedNow(p, t))) : p \in {q \in Payloads : q.userId = "u1"}}

FrameRequests(t) ==
    {[op |-> "profilePut", ip |-> "203.0.113.7", header |-> h, cookie |-> NoCookie,
      body |-> b] : h \in FrameCredentials(t), b \in FrameBodies}

UpdateInit == Start(Slots, <<Account1, Account2>>)

UpdateNext ==
    \/ \E h \in Slots : \E req \in FrameRequests(now) : PutProfile(h, req)
    \/ \E h \in Slots : ParseBody(h)
    \/ \E h \in Slots : Connect(h)
    \/ \E h \in Slots : ConnectFails(h)
    \/ \E h \in Slots : ProfileUpdate(h)
    \/ \E h \in Slots : Recycle(h)

SpecUpdate == UpdateInit /\ [][UpdateNext]_vars

(***************************************************************************)
(* C28: a profile update changes only the record whose id is the userId of *)
(* the verified token, and in that record only fields among firstName,     *)
(* lastName, phone, bio, skills, experience: whatever the request body     *)
(* contains, email, password and role of every account are left unchanged, *)
(* as are all other accounts.                                              *)
(***************************************************************************)
ProfileFields == {"firstName", "lastName", "phone", "bio", "skills", "experience"}

\* the step is the update of a request whose token verifies and names `id`
UpdatedBy(h, id) ==
    /\ slots[h].pc = "query" /\ slots'[h].pc = "done"
    /\ slots[h].req.op = "profilePut"
    /\ headerIsBearer(slots[h].req.header)
    /\ SignatureVerifies(slots[h].req.header.token, jwtSecret)
    /\ slots[h].req.header.token.claims.userId = id

UpdateFrame ==
    /\ Len(users') = Len(users)
    /\ \A i \in 1..Len(users) :
          /\ users'[i].id = users[i].id
          /\ users'[i].email = users[i].email
          /\ users'[i].password = users[i].password
          /\ users'[i].role = users[i].role
          /\ users'[i] # users[i] =>
                \E h \in DOMAIN slots :
                    /\ UpdatedBy(h, users[i].id)
                    /\ \A f \in DOMAIN users[i] :
                          users'[i][f] # users[i][f] =>
                              /\ f \in ProfileFields
                              /\ Has(slots[h].req.body, f)
                              /\ users'[i][f] = slots[h].req.body.fields[f]

C28_UpdateFrame == [][UpdateFrame]_vars

\* the first account has been updated by a request that also named email,
\* password and role; the second account is as it was
C28_Witness ==
    /\ users[1].bio = "abc" /\ users[1].firstName = "abc"
    /\ users[2] = Account2
    /\ \E h \in DOMAIN slots :
          /\ slots[h].pc = "done" /\ slots[h].response.status = 200
          /\ Has(slots[h].req.body, "role") /\ Has(slots[h].req.body, "email")
          /\ slots[h].response.user.role = "candidate"

(***************************************************************************)
(* SpecKeys: register and login requests from clients with two addresses   *)
(* and from clients for which the transport supplies none, inside one      *)
(* window, after some requests of each kind were served.                   *)
(***************************************************************************)
KeyIPs == {"", "203.0.113.7", "198.51.100.9"}

KeyPairs ==
    {<<"register", ip>> : ip \in KeyIPs} \cup {<<"login", ip>> : ip \in ClientIPs}

KeysInit == AfterRequests(KeyPairs, AUTH_limit - 2, <<>>)

KeysNext ==
    \/ \E h \in {"h1"}, req \in AuthRequests("register", KeyIPs, ConcBodies) :
          PostRegister(h, req)
    \/ \E h \in {"h1"}, req \in AuthRequests("login", ClientIPs, ConcBodies) :
          PostLogin(h, req)
    \/ \E h \in {"h1"} : ParseBody(h)
    \/ \E h \in {"h1"} : Recycle(h)

SpecKeys == KeysInit /\ [][KeysNext]_vars

(***************************************************************************)
(* C29: requests for which the transport supplies no client address are    *)
(* all counted against one shared key per operation ('register:anonymous', *)
(* 'login:anonymous'): once such clients together have made 5 requests in  *)
(* the window, every other address-less client is denied that operation,   *)
(* while requests with distinct addresses never share a counter and the    *)
(* register and login counters of one address are independent.             *)
(***************************************************************************)
CounterName(op, ip) ==
    IF ip = "" THEN op \o ":anonymous" ELSE op \o ":" \o ip

C29_CountersPerOperationAndAddress ==
    /\ \A p \in DOMAIN served :
          LET key == CounterName(p[1], p[2])
          IN  /\ key \in DOMAIN requests
              /\ requests[key].resetTime = served[p].reset
              /\ requests[key].count = served[p].n
    /\ Cardinality(DOMAIN requests) = Cardinality(DOMAIN served)
    /\ \A h \in DOMAIN slots :
          (slots[h].pc # "idle" /\ slots[h].req.op \in {"register", "login"}) =>
              LET p == <<slots[h].req.op, slots[h].req.ip>>
              IN  /\ slots[h].checked
                  /\ ~slots[h].admitted =>
                        /\ served[p].n > AUTH_limit
                        /\ slots[h].pc = "done" /\ slots[h].response.status = 429
                  /\ (lastCall.made /\ lastCall.key = CounterName(p[1], p[2])) =>
                        (slots[h].admitted <=> served[p].n <= AUTH_limit)

\* a client without address is refused a registration after five
\* registrations without address were admitted, while the login counter
\* of the address-less clients and the counters of both addresses have room
C29_Witness ==
    /\ \E h \in DOMAIN slots :
          /\ slots[h].pc = "done" /\ slots[h].req.op = "register"
          /\ slots[h].req.ip = "" /\ slots[h].response.status = 429
    /\ served[<<"register", "">>].adm = AUTH_limit
    /\ requests["login:anonymous"].count < AUTH_limit
    /\ requests["register:203.0.113.7"].count < AUTH_limit
    /\ requests["register:198.51.100.9"].count = AUTH_limit
    /\ requests["login:203.0.113.7"].count > AUTH_limit

(***************************************************************************)
(* SpecLogin: two login requests served side by side on a store with one   *)
(* account: the right password, a wrong one, and emails of no account.     *)
(***************************************************************************)
SignInBodies ==
    {Body([email |-> e, password |-> p]) :
        e \in {"a@x.io", "b@x.io", "USER@Example.com"},
        p \in {"Passw0rd1", "Other0ne2"}}

LoginInit == Start(Slots, <<Account1>>)

LoginNext ==
    \/ \E h \in Slots, req \in AuthRequests("login", {"203.0.113.7"}, SignInBodies) :
          PostLogin(h, req)
    \/ \E h \in Slots : ParseBody(h)
    \/ \E h \in Slots : Connect(h)
    \/ \E h \in Slots : LoginFindOne(h)
    \/ \E h \in Slots : LoginCompare(h)
    \/ \E h \in Slots : Recycle(h)

SpecLogin == LoginInit /\ [][LoginNext]_vars

(***************************************************************************)
(* C30: login gives the same response (status 401, code                    *)
(* AUTHENTICATION_ERROR, message 'Invalid email or password', no token, no *)
(* cookie) when the email matches no account as when the email matches an  *)
(* account but the password is wrong: the response does not reveal whether *)
(* an account exists.                                                      *)
(***************************************************************************)
\* a login that reached the store and was answered
LoginAnswered(slot) ==
    slot.pc = "done" /\ slot.req.op = "login" /\ "read" \in Stages(slot)

NoAccount(slot) == LoginAnswered(slot) /\ ByEmail(slot.data.email) = {}

WrongPassword(slot) ==
    /\ LoginAnswered(slot)
    /\ \E i \in ByEmail(slot.data.email) :
          ~comparePassword(slot.data.password, users[i].password)

C30_SameRefusal ==
    \A h, g \in DOMAIN slots :
        (NoAccount(slots[h]) /\ WrongPassword(slots[g])) =>
            /\ slots[h].response = slots[g].response
            /\ slots[h].response.status = 401
            /\ slots[h].response.code = "AUTHENTICATION_ERROR"
            /\ slots[h].response.error = "Invalid email or password"
            /\ ~slots[h].response.hasToken /\ ~slots[h].response.setCookie
            /\ ~slots[h].response.hasUser

C30_Witness ==
    \E h, g \in DOMAIN slots :
        /\ NoAccount(slots[h]) /\ WrongPassword(slots[g])
        /\ slots[h].req.body.fields.password = "Passw0rd1"
        /\ "compare" \in Stages(slots[g]) /\ "compare" \notin Stages(slots[h])

====
